---- MODULE Spec2Model ----
(***************************************************************************)
(* A model of the derivation engine of the GitHub city generator:         *)
(*   GridManager        (src/github-city-generator/src/utils/GridManager.ts) *)
(*   FileTracker        (src/github-city-generator/src/utils/FileTracker.ts) *)
(*   CityGeneratorCore  (src/unnamed/part_010)                             *)
(*   CityGenerator      (src/github-city-generator/src/types/city.ts)      *)
(* The operators keep the names of the methods they model.  Methods that  *)
(* mutate an object are operators from the object's value to its new      *)
(* value (and the method's result).                                       *)
(***************************************************************************)
EXTENDS Integers, Sequences, FiniteSets, TLC

(***************************************************************************)
(* Bounds of the model.                                                    *)
(***************************************************************************)
\* Half of GridManager.initialSize.  The code's initialSize is 50 (bounds
\* -25..25); the model scales the initial grid down so that collisions and
\* saturation happen with a handful of file paths.
HalfSize == 1
\* The number of file-change events of one behaviour that change the engine's
\* state; events that leave it as it was are not counted and not limited.
\* MaxEvents bounds Spec, MaxDeepEvents bounds SpecDeep.
MaxEvents == 4
MaxDeepEvents == 5
\* The number of GridManager calls of one behaviour of SpecGrid that change
\* the grid.
MaxGridCalls == 6
\* The number of state-changing file changes of one behaviour of SpecRoads.
MaxRoadEvents == 5
\* The number of paths allocated in one behaviour of SpecFill.
MaxKeys == 1000
\* The number of those paths allocated in one step of SpecFill.
KeysPerStep == 8
\* The number of calls of one behaviour of SpecTwin that change an index.
MaxTwinCalls == 5
\* The number of state-changing file changes of one behaviour of SpecRound.
MaxRoundEvents == 3
\* SpecListen: the registrations updateListeners holds at most, the commits
\* of one behaviour and the file changes of one commit at most.
MaxListeners == 3
MaxListenCommits == 2
MaxChanges == 2
\* SpecQuery and SpecAlias: the state-changing file changes of one behaviour
\* and the writes a caller makes through what a query returned.
MaxQueryEvents == 3
MaxAliasEvents == 2
\* SpecDelete: the state-changing steps of one behaviour.
MaxDeleteSteps == 5
\* SpecMaps: the state-changing calls of one behaviour.
MaxMapsCalls == 4
\* SpecDispatch: the registrations made from outside a dispatch and the
\* events of one behaviour.
MaxDispatchListeners == 3
MaxDispatchEvents == 2
\* SpecExpand: the state-changing file changes of one behaviour.
MaxExpandEvents == 6
\* SpecScan: the GridManager calls of one behaviour that change the grid.
MaxScanCalls == 5
\* SpecOverlap: the commits of one call of generateCity.
MaxOverlapCommits == 2
\* SpecReserve: the GridManager calls of one behaviour that change the grid.
MaxReserveCalls == 4
\* SpecLedger: the calls of one behaviour that change the tracker.
MaxLedgerCalls == 4
MaxWrites == 1
\* SpecBatch: the commits of one batch, the timestamps they carry (1..MaxTime)
\* and the calls of generateCity of one behaviour.
MaxCommits == 3
MaxTime == 2
MaxBatches == 2

(***************************************************************************)
(* Program constants.                                                      *)
(***************************************************************************)
\* CityGenerator.getDefaultConfig().roadInterval
roadInterval == 4

\* GridManager.initialSize
initialSize == 2 * HalfSize
\* GridManager.initialSize as the code has it, for SpecFill.
codeInitialSize == 50
\* getDefaultConfig(): layerHeight 0.2 in tenths.
gridSpacing == 2
buildingBaseSize == 1
layerHeight == 2
maxBuildingHeight == 10

\* 'undefined' where a string or an object is optional; an absent buildingId
\* (ids are the positive numbers, see generateBuildingId); an absent
\* previousPath (the empty string is as falsy as undefined).
Undefined == "undefined"
NoId == 0
NoPath == <<>>

\* enum CellState
EMPTY == "empty"
OCCUPIED == "occupied"
RESERVED == "reserved"
ROAD == "road"

\* enum FileChangeType
CREATE == "create"
MODIFY == "modify"
DELETE == "delete"
RENAME == "rename"
MOVE == "move"
FileChangeType == {CREATE, MODIFY, DELETE, RENAME, MOVE}

\* File paths are strings; a string is the sequence of its UTF-16 code units
\* (String.prototype.charCodeAt).  "a.ts", "b.ts", "c.ts".
PathA == <<97, 46, 116, 115>>
PathB == <<98, 46, 116, 115>>
PathC == <<99, 46, 116, 115>>
FilePaths == {PathA, PathB, PathC}
\* "d.ts", "e.ts": with them there are more paths than buildable cells in
\* the initial grid.
PathD == <<100, 46, 116, 115>>
PathE == <<101, 46, 116, 115>>
MorePaths == FilePaths \cup {PathD, PathE}

(***************************************************************************)
(* 32-bit integer arithmetic of simpleHash.  An int32 h is handled as its  *)
(* two 16-bit halves so that no intermediate value leaves the range of     *)
(* the model checker's integers.                                           *)
(***************************************************************************)
Lo16(h) == h % 65536
Hi16(h) == (h - Lo16(h)) \div 65536

\* ToInt32 of hi * 2^16 + lo, for any integers hi and lo.
Int32Of(hi, lo) ==
  LET l == lo % 65536
      c == (lo - l) \div 65536
      u == (hi + c) % 65536
      s == IF u >= 32768 THEN u - 65536 ELSE u
  IN  s * 65536 + l

\* One round of the loop of simpleHash:
\*   hash = ((hash << 5) - hash) + char;  hash = hash & hash;
HashStep(hash, char) ==
  LET shifted == Int32Of(Hi16(hash) * 32, Lo16(hash) * 32)
  IN  Int32Of(Hi16(shifted) - Hi16(hash), Lo16(shifted) - Lo16(hash) + char)

\* The loop of simpleHash; loop is the record of its two variables, i (from
\* 1, as sequences are indexed) and hash.
RECURSIVE HashLoop(_, _)
HashLoop(str, loop) ==
  IF loop.i > Len(str) THEN loop.hash
  ELSE HashLoop(str, [i    |-> loop.i + 1,
                      hash |-> HashStep(loop.hash, str[loop.i])])

Abs(n) == IF n < 0 THEN -n ELSE n
Max(a, b) == IF a >= b THEN a ELSE b
Min(a, b) == IF a <= b THEN a ELSE b

simpleHash(str) == Abs(HashLoop(str, [i |-> 1, hash |-> 0]))

(***************************************************************************)
(* GridManager.  A grid manager is a record                                *)
(*   [grid, bounds, roadInterval]                                          *)
(* where grid is the Map from grid key to GridCell, as a function whose    *)
(* domain is the set of keys present in the Map.  A method that computes   *)
(* a value and goes on with it is a chain of operators, each handing the   *)
(* value it computed to the next.                                          *)
(***************************************************************************)
getGridKey(x, z) == <<x, z>>

Coord(x, z) == [x |-> x, z |-> z]

\* const isRoad = x % this.roadInterval === 0 || z % this.roadInterval === 0
isRoad(x, z, interval) == x % interval = 0 \/ z % interval = 0

\* A cell as initializeGrid and expandGrid create it.
NewCell(x, z, interval) ==
  [coordinate |-> Coord(x, z),
   state      |-> IF isRoad(x, z, interval) THEN ROAD ELSE EMPTY,
   buildingId |-> NoId,
   reservedBy |-> Undefined]

BoundsKeys(b) == {getGridKey(x, z) : x \in b.minX..b.maxX, z \in b.minZ..b.maxZ}

initializeGrid(b, interval) ==
  [k \in BoundsKeys(b) |-> NewCell(k[1], k[2], interval)]

InitialBounds(size) ==
  [minX |-> -(size \div 2), maxX |-> size \div 2,
   minZ |-> -(size \div 2), maxZ |-> size \div 2,
   width |-> size, height |-> size]

GridManagerOf(b, interval) ==
  [grid |-> initializeGrid(b, interval), bounds |-> b, roadInterval |-> interval]

NewGridManager(interval) == GridManagerOf(InitialBounds(initialSize), interval)

HashedPosition(b, hash) ==
  Coord((hash % b.width) + b.minX, ((hash \div b.width) % b.height) + b.minZ)

getHashedPosition(gm, filePath) == HashedPosition(gm.bounds, simpleHash(filePath))

InBounds(b, coord) ==
  ~(coord.x < b.minX \/ coord.x > b.maxX \/ coord.z < b.minZ \/ coord.z > b.maxZ)

CellIs(grid, key, state) == key \in DOMAIN grid /\ grid[key].state = state

\* isValidPosition with the fault of testing "not occupied" for "empty".
isValidPositionNotOccupied(gm, coord) ==
  IF ~InBounds(gm.bounds, coord) THEN FALSE
  ELSE ~CellIs(gm.grid, getGridKey(coord.x, coord.z), OCCUPIED)

isValidPosition(gm, coord) ==
  IF ~InBounds(gm.bounds, coord) THEN FALSE
  ELSE CellIs(gm.grid, getGridKey(coord.x, coord.z), EMPTY)

\* findAvailablePosition returns [found, position]: found = FALSE is null.
NotFound == [found |-> FALSE, position |-> Undefined]
Found(coord) == [found |-> TRUE, position |-> coord]

\* The offsets (dx, dz) on the perimeter of the square of a radius, and the
\* order in which the two nested loops of findAvailablePosition meet them.
Perimeter(radius) ==
  {d \in (-radius..radius) \X (-radius..radius) :
     Abs(d[1]) = radius \/ Abs(d[2]) = radius}

\* The order of the loops with the fault of dz in the outer loop.
ScanBeforeByZ(d, e) == d[2] < e[2] \/ (d[2] = e[2] /\ d[1] < e[1])

ScanBefore(d, e) == d[1] < e[1] \/ (d[1] = e[1] /\ d[2] < e[2])

FirstScanned(offsets) ==
  CHOOSE d \in offsets : \A e \in offsets \ {d} : ScanBefore(d, e)

Candidate(preferredPos, d) == Coord(preferredPos.x + d[1], preferredPos.z + d[2])

ValidOffsets(gm, preferredPos, radius) ==
  {d \in Perimeter(radius) : isValidPosition(gm, Candidate(preferredPos, d))}

RECURSIVE SpiralSearch(_, _, _, _)
SpiralRing(gm, preferredPos, radius, maxRadius, valid) ==
  IF valid = {}
  THEN SpiralSearch(gm, preferredPos, radius + 1, maxRadius)
  ELSE Found(Candidate(preferredPos, FirstScanned(valid)))

SpiralSearch(gm, preferredPos, radius, maxRadius) ==
  IF radius > maxRadius THEN NotFound
  ELSE SpiralRing(gm, preferredPos, radius, maxRadius,
                  ValidOffsets(gm, preferredPos, radius))

findAvailablePosition(gm, preferredPos) ==
  IF isValidPosition(gm, preferredPos) THEN Found(preferredPos)
  ELSE SpiralSearch(gm, preferredPos, 1, Max(gm.bounds.width, gm.bounds.height))

\* Math.ceil(Math.min(width, height) * 0.5)
Expansion(b) == (Min(b.width, b.height) + 1) \div 2

ExpandedBounds(old, expansion) ==
  [minX |-> old.minX - expansion, maxX |-> old.maxX + expansion,
   minZ |-> old.minZ - expansion, maxZ |-> old.maxZ + expansion,
   width |-> old.width + (expansion * 2),
   height |-> old.height + (expansion * 2)]

\* expandGrid with the fault of setting every cell of the new bounds, the
\* existing ones too.
ExpandToAnew(gm, b) ==
  [gm EXCEPT !.bounds = b, !.grid = initializeGrid(b, gm.roadInterval)]

ExpandTo(gm, b) ==
  [gm EXCEPT !.bounds = b,
             !.grid = [k \in (DOMAIN gm.grid) \cup BoundsKeys(b) |->
                         IF k \in DOMAIN gm.grid THEN gm.grid[k]
                         ELSE NewCell(k[1], k[2], gm.roadInterval)]]

expandGrid(gm) == ExpandTo(gm, ExpandedBounds(gm.bounds, Expansion(gm.bounds)))

\* allocatePosition returns [gm, success, position].
\* The marking of allocatePosition with the fault of leaving the cell's state
\* as it is.
SetOccupiedKeepingState(gm, key, buildingId) ==
  IF key \in DOMAIN gm.grid
  THEN [gm EXCEPT !.grid[key].buildingId = buildingId]
  ELSE gm

SetOccupied(gm, key, buildingId) ==
  IF key \in DOMAIN gm.grid
  THEN [gm EXCEPT !.grid[key].state = OCCUPIED,
                  !.grid[key].buildingId = buildingId]
  ELSE gm

MarkOccupied(gm, buildingId, available) ==
  IF ~available.found
  THEN [gm |-> gm, success |-> FALSE, position |-> Undefined]
  ELSE [gm |-> SetOccupied(gm, getGridKey(available.position.x,
                                         available.position.z), buildingId),
        success |-> TRUE,
        position |-> available.position]

\* The retry of allocatePosition with the fault of expanding twice.
AllocateRetryTwice(gm, buildingId, preferredPos, available) ==
  IF available.found
  THEN MarkOccupied(gm, buildingId, available)
  ELSE MarkOccupied(expandGrid(expandGrid(gm)), buildingId,
                    findAvailablePosition(expandGrid(expandGrid(gm)),
                                          preferredPos))

AllocateRetry(gm, buildingId, preferredPos, available) ==
  IF available.found
  THEN MarkOccupied(gm, buildingId, available)
  ELSE MarkOccupied(expandGrid(gm), buildingId,
                    findAvailablePosition(expandGrid(gm), preferredPos))

AllocateFrom(gm, buildingId, preferredPos) ==
  AllocateRetry(gm, buildingId, preferredPos,
                findAvailablePosition(gm, preferredPos))

\* allocatePosition with the fault of hashing the building id for the path.
allocatePositionById(gm, filePath, buildingId) ==
  AllocateFrom(gm, buildingId, getHashedPosition(gm, <<buildingId>>))

allocatePosition(gm, filePath, buildingId) ==
  AllocateFrom(gm, buildingId, getHashedPosition(gm, filePath))

\* freePosition returns [gm, ok].
FreeCell(gm, key) ==
  IF CellIs(gm.grid, key, OCCUPIED)
  THEN [gm |-> [gm EXCEPT !.grid[key].state = EMPTY,
                          !.grid[key].buildingId = NoId,
                          !.grid[key].reservedBy = Undefined],
        ok |-> TRUE]
  ELSE [gm |-> gm, ok |-> FALSE]

\* freePosition with the fault of forgetting the building id and leaving the
\* cell's state as it is.
freePositionKeepingState(gm, position) ==
  IF CellIs(gm.grid, getGridKey(position.x, position.z), OCCUPIED)
  THEN [gm |-> [gm EXCEPT !.grid[getGridKey(position.x, position.z)].buildingId
                            = NoId],
        ok |-> TRUE]
  ELSE [gm |-> gm, ok |-> FALSE]

freePosition(gm, position) == FreeCell(gm, getGridKey(position.x, position.z))

\* getUtilizationStats().occupied
occupiedCount(gm) ==
  Cardinality({k \in DOMAIN gm.grid : gm.grid[k].state = OCCUPIED})

\* reservePosition and releaseReservation return [gm, ok].
\* The reservation with the fault of testing "not occupied" for "empty".
ReserveCellNotOccupied(gm, key, reservedBy) ==
  IF key \in DOMAIN gm.grid /\ gm.grid[key].state # OCCUPIED
  THEN [gm |-> [gm EXCEPT !.grid[key].state = RESERVED,
                          !.grid[key].reservedBy = reservedBy],
        ok |-> TRUE]
  ELSE [gm |-> gm, ok |-> FALSE]

ReserveCell(gm, key, reservedBy) ==
  IF CellIs(gm.grid, key, EMPTY)
  THEN [gm |-> [gm EXCEPT !.grid[key].state = RESERVED,
                          !.grid[key].reservedBy = reservedBy],
        ok |-> TRUE]
  ELSE [gm |-> gm, ok |-> FALSE]

reservePosition(gm, position, reservedBy) ==
  ReserveCell(gm, getGridKey(position.x, position.z), reservedBy)

ReleaseCell(gm, key) ==
  IF CellIs(gm.grid, key, RESERVED)
  THEN [gm |-> [gm EXCEPT !.grid[key].state = EMPTY,
                          !.grid[key].reservedBy = Undefined],
        ok |-> TRUE]
  ELSE [gm |-> gm, ok |-> FALSE]

releaseReservation(gm, position) ==
  ReleaseCell(gm, getGridKey(position.x, position.z))

(***************************************************************************)
(* FileTracker.  A file tracker is a record [buildings, buildingIds].      *)
(* buildings is the Map filePath -> Building as the sequence of its values *)
(* in insertion order (every entry's key is its building's filePath);      *)
(* buildingIds is the Map buildingId -> filePath as a function.            *)
(* A layer carries changeType, timestamp and author; commitSha,            *)
(* authorEmail, linesAdded, linesDeleted and message are copied along      *)
(* unread and are left out, and so is the layer's random id.               *)
(***************************************************************************)
NewFileTracker == [buildings |-> <<>>, buildingIds |-> <<>>]

MapIndex(buildings, filePath) ==
  CHOOSE i \in 1..Len(buildings) : buildings[i].filePath = filePath

MapHas(buildings, filePath) ==
  \E i \in 1..Len(buildings) : buildings[i].filePath = filePath

\* Map.prototype.get, for a key the Map has.
MapGet(buildings, filePath) == buildings[MapIndex(buildings, filePath)]

\* Map.prototype.set: an existing key keeps its place, a new key goes last.
MapSet(buildings, filePath, building) ==
  IF MapHas(buildings, filePath)
  THEN [buildings EXCEPT ![MapIndex(buildings, filePath)] = building]
  ELSE Append(buildings, building)

RemoveAt(seq, i) == SubSeq(seq, 1, i - 1) \o SubSeq(seq, i + 1, Len(seq))

MapDelete(buildings, filePath) ==
  IF MapHas(buildings, filePath)
  THEN RemoveAt(buildings, MapIndex(buildings, filePath))
  ELSE buildings

IdSet(buildingIds, id, filePath) ==
  [k \in (DOMAIN buildingIds) \cup {id} |->
     IF k = id THEN filePath ELSE buildingIds[k]]

\* `building_${Date.now()}_${Math.random().toString(36).substr(2, 9)}`:
\* the n-th id drawn, each draw different from all earlier ones.
generateBuildingId(counter) == counter + 1

\* filePath.split('.').pop()?.toLowerCase()
RECURSIVE LastDot(_, _)
LastDot(str, i) ==
  IF i = 0 THEN 0 ELSE IF str[i] = 46 THEN i ELSE LastDot(str, i - 1)

ToLowerCase(str) ==
  [i \in 1..Len(str) |-> IF str[i] >= 65 /\ str[i] <= 90 THEN str[i] + 32 ELSE str[i]]

Extension(filePath) ==
  ToLowerCase(SubSeq(filePath, LastDot(filePath, Len(filePath)) + 1, Len(filePath)))

FileTypeOf(extension) ==
  CASE extension \in {<<106, 115>>, <<106, 115, 120>>} -> "javascript"
    [] extension \in {<<116, 115>>, <<116, 115, 120>>} -> "typescript"
    [] extension = <<112, 121>> -> "python"
    [] extension = <<106, 97, 118, 97>> -> "java"
    [] extension \in {<<99, 115, 115>>, <<115, 99, 115, 115>>,
                      <<115, 97, 115, 115>>, <<108, 101, 115, 115>>} -> "css"
    [] extension \in {<<104, 116, 109, 108>>, <<104, 116, 109>>} -> "html"
    [] extension \in {<<109, 100>>,
                      <<109, 97, 114, 107, 100, 111, 119, 110>>} -> "markdown"
    [] extension = <<106, 115, 111, 110>> -> "json"
    [] extension \in {<<121, 109, 108>>, <<121, 97, 109, 108>>,
                      <<116, 111, 109, 108>>, <<105, 110, 105>>,
                      <<99, 111, 110, 102>>,
                      <<99, 111, 110, 102, 105, 103>>} -> "config"
    [] extension \in {<<112, 110, 103>>, <<106, 112, 103>>,
                      <<106, 112, 101, 103>>, <<103, 105, 102>>,
                      <<115, 118, 103>>, <<119, 101, 98, 112>>} -> "image"
    [] OTHER -> "other"

determineFileType(filePath) == FileTypeOf(Extension(filePath))

\* The FileTracker methods return [ft, success, building].
Failure(ft) == [ft |-> ft, success |-> FALSE, building |-> Undefined]

NewBuilding(buildingId, filePath, position, initialLayer) ==
  [id           |-> buildingId,
   filePath     |-> filePath,
   position     |-> position,
   layers       |-> <<initialLayer>>,
   fileType     |-> determineFileType(filePath),
   isActive     |-> TRUE,
   createdAt    |-> initialLayer.timestamp,
   lastModified |-> initialLayer.timestamp]

Inserted(ft, building) ==
  [ft |-> [buildings   |-> MapSet(ft.buildings, building.filePath, building),
           buildingIds |-> IdSet(ft.buildingIds, building.id, building.filePath)],
   success |-> TRUE,
   building |-> building]

createBuilding(ft, filePath, position, initialLayer, buildingId) ==
  IF MapHas(ft.buildings, filePath)
  THEN Failure(ft)
  ELSE Inserted(ft, NewBuilding(buildingId, filePath, position, initialLayer))

\* The building is mutated in place: the Map entry at its key is the new value.
Updated(ft, filePath, building) ==
  [ft |-> [ft EXCEPT !.buildings = MapSet(@, filePath, building)],
   success |-> TRUE,
   building |-> building]

\* The push of addLayer with the fault of leaving lastModified as it was.
WithLayerUndated(building, layer) ==
  [building EXCEPT !.layers = Append(@, layer)]

WithLayer(building, layer) ==
  [building EXCEPT !.layers = Append(@, layer),
                   !.lastModified = layer.timestamp]

\* addLayer with the fault of not looking at isActive.
addLayerToAny(ft, filePath, layer) ==
  IF ~MapHas(ft.buildings, filePath)
  THEN Failure(ft)
  ELSE Updated(ft, filePath, WithLayer(MapGet(ft.buildings, filePath), layer))

addLayer(ft, filePath, layer) ==
  IF ~MapHas(ft.buildings, filePath)
  THEN Failure(ft)
  ELSE IF ~MapGet(ft.buildings, filePath).isActive
  THEN Failure(ft)
  ELSE Updated(ft, filePath, WithLayer(MapGet(ft.buildings, filePath), layer))

Deleted(building, deletionLayer) ==
  [building EXCEPT
     !.layers = Append(@, [deletionLayer EXCEPT !.changeType = DELETE]),
     !.isActive = FALSE,
     !.lastModified = deletionLayer.timestamp]

\* deleteBuilding with the fault of removing the building from the maps.
deleteBuildingRemoving(ft, filePath, deletionLayer) ==
  IF ~MapHas(ft.buildings, filePath)
  THEN Failure(ft)
  ELSE [ft |-> [ft EXCEPT !.buildings = MapDelete(@, filePath)],
        success |-> TRUE,
        building |-> Deleted(MapGet(ft.buildings, filePath), deletionLayer)]

deleteBuilding(ft, filePath, deletionLayer) ==
  IF ~MapHas(ft.buildings, filePath)
  THEN Failure(ft)
  ELSE Updated(ft, filePath, Deleted(MapGet(ft.buildings, filePath), deletionLayer))

\* The mutation of moveBuilding with the fault of replacing the layers by
\* the move layer instead of appending it.
MovedTruncating(building, newFilePath, newPosition, moveLayer) ==
  [building EXCEPT
     !.layers = <<[moveLayer EXCEPT !.changeType = MOVE]>>,
     !.filePath = newFilePath,
     !.position = newPosition,
     !.fileType = determineFileType(newFilePath),
     !.lastModified = moveLayer.timestamp]

Moved(building, newFilePath, newPosition, moveLayer) ==
  [building EXCEPT
     !.layers = Append(@, [moveLayer EXCEPT !.changeType = MOVE]),
     !.filePath = newFilePath,
     !.position = newPosition,
     !.fileType = determineFileType(newFilePath),
     !.lastModified = moveLayer.timestamp]

\* The map updates of moveBuilding with the fault of leaving buildingIds
\* as it was.
RekeyedByPathOnly(ft, oldFilePath, building) ==
  [ft |-> [buildings   |-> MapSet(MapDelete(ft.buildings, oldFilePath),
                                  building.filePath, building),
           buildingIds |-> ft.buildingIds],
   success |-> TRUE,
   building |-> building]

Rekeyed(ft, oldFilePath, building) ==
  [ft |-> [buildings   |-> MapSet(MapDelete(ft.buildings, oldFilePath),
                                  building.filePath, building),
           buildingIds |-> IdSet(ft.buildingIds, building.id, building.filePath)],
   success |-> TRUE,
   building |-> building]

moveBuilding(ft, oldFilePath, newFilePath, newPosition, moveLayer) ==
  IF ~MapHas(ft.buildings, oldFilePath)
  THEN Failure(ft)
  ELSE IF MapHas(ft.buildings, newFilePath)
  THEN Failure(ft)
  ELSE Rekeyed(ft, oldFilePath,
               Moved(MapGet(ft.buildings, oldFilePath), newFilePath,
                     newPosition, moveLayer))

\* getBuilding(filePath) is undefined iff ~hasBuilding(ft, filePath).
hasBuilding(ft, filePath) == MapHas(ft.buildings, filePath)
getBuilding(ft, filePath) == MapGet(ft.buildings, filePath)

hasBuildingId(ft, buildingId) ==
  /\ buildingId \in DOMAIN ft.buildingIds
  /\ MapHas(ft.buildings, ft.buildingIds[buildingId])
getBuildingById(ft, buildingId) == MapGet(ft.buildings, ft.buildingIds[buildingId])

getAllBuildings(ft) == ft.buildings

IsActive(building) == building.isActive
getActiveBuildings(ft) == SelectSeq(ft.buildings, IsActive)

\* clear()
clear(ft) == NewFileTracker

\* The query methods.  A query returns the buildings (or layers) it selects,
\* in the order of the Map.
getBuildingsByType(ft, fileType) ==
  LET OfType(building) == building.fileType = fileType
  IN  SelectSeq(ft.buildings, OfType)

getBuildingsModifiedInRange(ft, startDate, endDate) ==
  LET InRange(building) ==
        building.lastModified >= startDate /\ building.lastModified <= endDate
  IN  SelectSeq(ft.buildings, InRange)

getBuildingsByAuthor(ft, author) ==
  LET ByAuthor(building) ==
        \E i \in 1..Len(building.layers) : building.layers[i].author = author
  IN  SelectSeq(ft.buildings, ByAuthor)

getBuildingHistory(ft, filePath) ==
  IF MapHas(ft.buildings, filePath)
  THEN MapGet(ft.buildings, filePath).layers
  ELSE <<>>

\* Array.prototype.sort((a, b) => key(b) - key(a)), which is stable: the
\* entries [key, value] one by one, each behind those whose key is not less.
InsertDescending(sorted, entry) ==
  LET k == Cardinality({i \in 1..Len(sorted) : sorted[i].key >= entry.key})
  IN  SubSeq(sorted, 1, k) \o <<entry>> \o SubSeq(sorted, k + 1, Len(sorted))

RECURSIVE SortDescendingFrom(_, _, _)
SortDescendingFrom(entries, i, sorted) ==
  IF i > Len(entries) THEN sorted
  ELSE SortDescendingFrom(entries, i + 1, InsertDescending(sorted, entries[i]))

\* slice(0, limit) of the sorted values.
Slice(sorted, limit) ==
  [i \in 1..Min(limit, Len(sorted)) |-> sorted[i].value]

getMostActiveFiles(ft, limit) ==
  Slice(SortDescendingFrom(
          [i \in 1..Len(ft.buildings) |->
             [key |-> Len(ft.buildings[i].layers), value |-> ft.buildings[i]]],
          1, <<>>),
        limit)

getRecentlyModifiedFiles(ft, limit) ==
  Slice(SortDescendingFrom(
          [i \in 1..Len(ft.buildings) |->
             [key |-> ft.buildings[i].lastModified, value |-> ft.buildings[i]]],
          1, <<>>),
        limit)

(***************************************************************************)
(* Dates.  A Date is its time value, the milliseconds since the epoch.     *)
(* toISOString writes it as the 24 code units YYYY-MM-DDTHH:mm:ss.sssZ     *)
(* (years 0 to 9999), new Date(string) reads that form back.               *)
(***************************************************************************)
\* The civil date [year, month, day] of a day number (days since the epoch).
CivilOfYear(era, yoe, doy, mp) ==
  [year  |-> yoe + era * 400 + (IF mp < 10 THEN 0 ELSE 1),
   month |-> IF mp < 10 THEN mp + 3 ELSE mp - 9,
   day   |-> doy - ((153 * mp + 2) \div 5) + 1]

CivilOfDoy(era, yoe, doy) == CivilOfYear(era, yoe, doy, (5 * doy + 2) \div 153)

CivilOfYoe(era, doe, yoe) ==
  CivilOfDoy(era, yoe, doe - (365 * yoe + (yoe \div 4) - (yoe \div 100)))

CivilOfDoe(era, doe) ==
  CivilOfYoe(era, doe,
             (doe - (doe \div 1460) + (doe \div 36524) - (doe \div 146096))
               \div 365)

CivilOfShifted(z) == CivilOfDoe(z \div 146097, z % 146097)

CivilOfDays(days) == CivilOfShifted(days + 719468)

\* The day number of a civil date.
DaysOfShifted(y, mp, day) ==
  (y \div 400) * 146097
    + (y % 400) * 365 + ((y % 400) \div 4) - ((y % 400) \div 100)
    + ((153 * mp + 2) \div 5) + day - 1
    - 719468

DaysOfCivil(year, month, day) ==
  DaysOfShifted(IF month <= 2 THEN year - 1 ELSE year,
                IF month > 2 THEN month - 3 ELSE month + 9, day)

Power10(n) == CASE n = 0 -> 1 [] n = 1 -> 10 [] n = 2 -> 100 [] n = 3 -> 1000

\* n in decimal, padded with zeros to the width.
Padded(n, width) ==
  [i \in 1..width |-> 48 + ((n \div Power10(width - i)) % 10)]

\* The number written in decimal at str[from..to].
RECURSIVE NumberAt(_, _, _)
NumberAt(str, from, to) ==
  IF to < from THEN 0
  ELSE NumberAt(str, from, to - 1) * 10 + (str[to] - 48)

ISOString(civil, msOfDay) ==
  Padded(civil.year, 4) \o <<45>> \o Padded(civil.month, 2) \o <<45>>
    \o Padded(civil.day, 2) \o <<84>>
    \o Padded(msOfDay \div 3600000, 2) \o <<58>>
    \o Padded((msOfDay \div 60000) % 60, 2) \o <<58>>
    \o Padded((msOfDay \div 1000) % 60, 2) \o <<46>>
    \o Padded(msOfDay % 1000, 3) \o <<90>>

\* Date.prototype.toISOString
toISOString(date) == ISOString(CivilOfDays(date \div 86400000), date % 86400000)

\* new Date(isoString)
NewDate(str) ==
  DaysOfCivil(NumberAt(str, 1, 4), NumberAt(str, 6, 7), NumberAt(str, 9, 10))
      * 86400000
    + NumberAt(str, 12, 13) * 3600000
    + NumberAt(str, 15, 16) * 60000
    + NumberAt(str, 18, 19) * 1000
    + NumberAt(str, 21, 23)

\* exportData(): every building with its dates as ISO strings.
ExportedLayer(layer) == [layer EXCEPT !.timestamp = toISOString(@)]

ExportedBuilding(building) ==
  [building EXCEPT
     !.createdAt = toISOString(@),
     !.lastModified = toISOString(@),
     !.layers = [i \in 1..Len(@) |-> ExportedLayer(@[i])]]

exportData(ft) ==
  [buildings |-> [i \in 1..Len(ft.buildings) |-> ExportedBuilding(ft.buildings[i])]]

\* importData(data): clear(), then every building of the data is set at its
\* path and its id is set to its path.
ImportedLayer(layer) == [layer EXCEPT !.timestamp = NewDate(@)]

ImportedBuilding(buildingData) ==
  [buildingData EXCEPT
     !.createdAt = NewDate(@),
     !.lastModified = NewDate(@),
     !.layers = [i \in 1..Len(@) |-> ImportedLayer(@[i])]]

ImportSet(ft, building) ==
  [buildings   |-> MapSet(ft.buildings, building.filePath, building),
   buildingIds |-> IdSet(ft.buildingIds, building.id, building.filePath)]

RECURSIVE ImportLoop(_, _, _)
ImportLoop(ft, buildings, i) ==
  IF i > Len(buildings) THEN ft
  ELSE ImportLoop(ImportSet(ft, ImportedBuilding(buildings[i])), buildings, i + 1)

\* importData with the fault of not clearing the ledger first.
importDataWithoutClear(ft, data) == ImportLoop(ft, data.buildings, 1)

importData(ft, data) == ImportLoop(clear(ft), data.buildings, 1)

(***************************************************************************)
(* CityGeneratorCore.  The engine's handlers are operators on the record   *)
(*   [gridManager, fileTracker, idCounter, emitted]                        *)
(* where emitted is the sequence of CityUpdateEvents handed to             *)
(* emitUpdateEvent.  A handler has no await before its last statement      *)
(* (handleFileModification and handleFileMove await only the               *)
(* handleFileCreation they end with), so each runs as one step.            *)
(***************************************************************************)
\* emitUpdateEvent with the fault of handing the event to nobody.
emitUpdateEventDropping(E, event) == E

emitUpdateEvent(E, event) == [E EXCEPT !.emitted = Append(@, event)]

UpdateEvent(type, building, filePath, layer, details) ==
  [type       |-> type,
   buildingId |-> building.id,
   filePath   |-> filePath,
   timestamp  |-> layer.timestamp,
   details    |-> details]

(***************************************************************************)
(* buildingToGeometry.  Heights are in tenths of a world unit (layerHeight *)
(* 0.2 is 2), so that maxBuildingHeight / layerHeight is 100 \div 2.       *)
(* Dates are whole days here, now is Date.now(): a layer is recent         *)
(* for 30 days, and its opacity, Math.max(0.3, 1 - age / 365 days), is in  *)
(* 3650ths.  The result is the set of the geometry, empty for null.        *)
(***************************************************************************)
\* this.config.colorScheme.fileTypes[building.fileType] || buildingBase
ColorOf(fileType) == [scheme |-> "fileTypes", fileType |-> fileType]

LayerGeometryOf(layer, age) ==
  [height    |-> layerHeight,
   color     |-> IF age < 30 THEN "recentActivity" ELSE "oldActivity",
   opacity   |-> Max(1095, 3650 - 10 * age),
   timestamp |-> layer.timestamp,
   author    |-> layer.author]

GeometryOf(building, now, layerCount) ==
  [position   |-> <<building.position.x * gridSpacing,
                    (layerCount * layerHeight) \div 2,
                    building.position.z * gridSpacing>>,
   dimensions |-> <<buildingBaseSize, layerCount * layerHeight, buildingBaseSize>>,
   color      |-> ColorOf(building.fileType),
   layers     |-> [i \in 1..layerCount |->
                     LayerGeometryOf(building.layers[i],
                                     now - building.layers[i].timestamp)],
   fileType   |-> building.fileType]

\* buildingToGeometry with the fault of not returning null for a building
\* that is not active.
buildingToGeometryOfAny(building, now) ==
  IF Len(building.layers) = 0 THEN {}
  ELSE {GeometryOf(building, now,
                   Min(Len(building.layers),
                       (maxBuildingHeight * 10) \div layerHeight))}

buildingToGeometry(building, now) ==
  IF ~building.isActive \/ Len(building.layers) = 0 THEN {}
  ELSE {GeometryOf(building, now,
                   Min(Len(building.layers),
                       (maxBuildingHeight * 10) \div layerHeight))}

(***************************************************************************)
(* The update listeners.  updateListeners is the sequence of the           *)
(* registered listeners, a listener a record [id, throws]: the function    *)
(* (its identity) and whether it throws when it is called.  received maps  *)
(* a listener's id to the events it has been called with.  A call returns  *)
(* [received, thrown]: thrown tells that an exception leaves it.           *)
(***************************************************************************)
\* listener(event)
CallListener(listener, event, received) ==
  [received |-> [received EXCEPT ![listener.id] = Append(@, event)],
   thrown   |-> listener.throws]

\* The call with the fault of having no try around it.
Uncaught(call) == call

\* try { listener(event) } catch (error) { console.error(...) }
Caught(call) == [call EXCEPT !.thrown = FALSE]

\* this.updateListeners.forEach(listener => ...): the body of
\* emitUpdateEvent.  An exception that leaves a call leaves the loop.
RECURSIVE ForEachListener(_, _, _, _)
ForEachNext(updateListeners, i, event, call) ==
  IF call.thrown THEN call
  ELSE ForEachListener(updateListeners, i + 1, event, call.received)

ForEachListener(updateListeners, i, event, received) ==
  IF i > Len(updateListeners) THEN [received |-> received, thrown |-> FALSE]
  ELSE ForEachNext(updateListeners, i, event,
                   Caught(CallListener(updateListeners[i], event, received)))

\* addUpdateListener: push.
addUpdateListener(updateListeners, listener) == Append(updateListeners, listener)

\* indexOf: the first place of the listener, 0 for -1.
IndexOf(updateListeners, listener) ==
  IF \E i \in 1..Len(updateListeners) : updateListeners[i] = listener
  THEN CHOOSE i \in 1..Len(updateListeners) :
         /\ updateListeners[i] = listener
         /\ \A j \in 1..(i - 1) : updateListeners[j] # listener
  ELSE 0

\* removeUpdateListener with the fault of removing the last registration.
removeLastUpdateListener(updateListeners, listener) ==
  IF \E i \in 1..Len(updateListeners) : updateListeners[i] = listener
  THEN RemoveAt(updateListeners,
                CHOOSE i \in 1..Len(updateListeners) :
                  /\ updateListeners[i] = listener
                  /\ \A j \in (i + 1)..Len(updateListeners) :
                       updateListeners[j] # listener)
  ELSE updateListeners

\* removeUpdateListener: splice(index, 1) if index > -1.
removeUpdateListener(updateListeners, listener) ==
  IF IndexOf(updateListeners, listener) > 0
  THEN RemoveAt(updateListeners, IndexOf(updateListeners, listener))
  ELSE updateListeners

(***************************************************************************)
(* Listeners that call the engine back.  Here a listener is the name of    *)
(* its function and bodies maps the name to what the function does when it *)
(* is called: nothing, addUpdateListener(with) or                          *)
(* removeUpdateListener(with).  A dispatch carries [updateListeners,       *)
(* called]: the array as it is now and the listeners called so far.        *)
(***************************************************************************)
ReactorIds == {"first", "second"}

Bodies ==
  {[calls |-> "nothing", with |-> "nobody"]}
    \cup [calls : {"addUpdateListener", "removeUpdateListener"},
          with : ReactorIds]

\* listener(event), inside the try
Reacted(dispatch, listener, body) ==
  [updateListeners |->
     IF body.calls = "addUpdateListener"
     THEN addUpdateListener(dispatch.updateListeners, body.with)
     ELSE IF body.calls = "removeUpdateListener"
     THEN removeUpdateListener(dispatch.updateListeners, body.with)
     ELSE dispatch.updateListeners,
   called |-> Append(dispatch.called, listener)]

\* Array.prototype.forEach on the array itself: the length is read once,
\* before the first call, and an index is visited if the array still has
\* it when its turn comes, with the element that is there then.
RECURSIVE ForEachLive(_, _, _, _)
ForEachLive(dispatch, k, len, bodies) ==
  IF k > len THEN dispatch
  ELSE IF k > Len(dispatch.updateListeners)
  THEN ForEachLive(dispatch, k + 1, len, bodies)
  ELSE ForEachLive(Reacted(dispatch, dispatch.updateListeners[k],
                           bodies[dispatch.updateListeners[k]]),
                   k + 1, len, bodies)

\* emitUpdateEvent(event) with such listeners.
Dispatched(updateListeners, bodies) ==
  ForEachLive([updateListeners |-> updateListeners, called |-> <<>>],
              1, Len(updateListeners), bodies)

\* handleFileCreation, from the result of createBuilding on.
CreationDone(E, filePath, layer, allocation, result) ==
  IF result.success
  THEN emitUpdateEvent(
         [E EXCEPT !.gridManager = allocation.gm,
                   !.fileTracker = result.ft,
                   !.idCounter = generateBuildingId(generateBuildingId(@))],
         UpdateEvent("building_created", result.building, filePath, layer,
                     [position |-> allocation.position]))
  ELSE [E EXCEPT !.gridManager = allocation.gm,
                 !.idCounter = generateBuildingId(generateBuildingId(@))]

\* handleFileCreation, after allocatePosition, with the fault of going on
\* with the preferred position when the allocation failed.
CreationAllocatedAnyway(E, filePath, layer, allocation) ==
  CreationDone(E, filePath, layer,
    [allocation EXCEPT !.position = getHashedPosition(allocation.gm, filePath)],
    createBuilding(E.fileTracker, filePath,
                   getHashedPosition(allocation.gm, filePath), layer,
                   generateBuildingId(generateBuildingId(E.idCounter))))

\* handleFileCreation, from the result of allocatePosition on.  The id given
\* to the grid is drawn here; createBuilding draws the building's own id.
CreationAllocated(E, filePath, layer, allocation) ==
  IF ~allocation.success
  THEN [E EXCEPT !.gridManager = allocation.gm,
                 !.idCounter = generateBuildingId(@)]
  ELSE CreationDone(E, filePath, layer, allocation,
         createBuilding(E.fileTracker, filePath, allocation.position, layer,
                        generateBuildingId(generateBuildingId(E.idCounter))))

\* handleFileCreation with the fault of not looking for an existing building
\* before it allocates.
handleFileCreationUnchecked(E, filePath, layer) ==
  CreationAllocated(E, filePath, layer,
    allocatePosition(E.gridManager, filePath, generateBuildingId(E.idCounter)))

handleFileCreation(E, filePath, layer) ==
  IF hasBuilding(E.fileTracker, filePath)
  THEN E
  ELSE CreationAllocated(E, filePath, layer,
         allocatePosition(E.gridManager, filePath,
                          generateBuildingId(E.idCounter)))

ModificationDone(E, filePath, layer, result) ==
  IF result.success
  THEN emitUpdateEvent([E EXCEPT !.fileTracker = result.ft],
         UpdateEvent("building_updated", result.building, filePath, layer,
                     [layersCount |-> Len(result.building.layers)]))
  ELSE E

handleFileModification(E, filePath, layer) ==
  IF ~hasBuilding(E.fileTracker, filePath)
  THEN handleFileCreation(E, filePath, layer)
  ELSE ModificationDone(E, filePath, layer,
                        addLayer(E.fileTracker, filePath, layer))

DeletionDone(E, filePath, layer, result) ==
  IF result.success
  THEN emitUpdateEvent(
         [E EXCEPT !.fileTracker = result.ft,
                   !.gridManager = freePosition(@, result.building.position).gm],
         UpdateEvent("building_deleted", result.building, filePath, layer,
                     [finalLayersCount |-> Len(result.building.layers)]))
  ELSE E

\* handleFileDeletion statement by statement, for a path the tracker has a
\* building at.  First fileTracker.deleteBuilding(filePath, layer); with the
\* fault of freeing the position first instead:
DeletionFreedAhead(E, filePath, layer) ==
  [E EXCEPT !.gridManager =
     freePosition(@, getBuilding(E.fileTracker, filePath).position).gm]

DeletionRetired(E, filePath, layer) ==
  [E EXCEPT !.fileTracker = deleteBuilding(E.fileTracker, filePath, layer).ft]

\* Then, deleteBuilding having succeeded, gridManager.freePosition of the
\* building's position and emitUpdateEvent.
DeletionFreed(E, filePath, layer) ==
  emitUpdateEvent(
    [E EXCEPT !.gridManager =
       freePosition(@, getBuilding(E.fileTracker, filePath).position).gm],
    UpdateEvent("building_deleted", getBuilding(E.fileTracker, filePath),
                filePath, layer,
                [finalLayersCount |->
                   Len(getBuilding(E.fileTracker, filePath).layers)]))

\* handleFileDeletion with the fault of taking the creation path, as
\* handleFileModification does, when the ledger has nothing at the path.
handleFileDeletionCreating(E, filePath, layer) ==
  IF ~hasBuilding(E.fileTracker, filePath)
  THEN handleFileCreation(E, filePath, layer)
  ELSE DeletionDone(E, filePath, layer,
                    deleteBuilding(E.fileTracker, filePath, layer))

handleFileDeletion(E, filePath, layer) ==
  IF ~hasBuilding(E.fileTracker, filePath)
  THEN E
  ELSE DeletionDone(E, filePath, layer,
                    deleteBuilding(E.fileTracker, filePath, layer))

\* handleFileMove, from the result of moveBuilding on.  building and
\* result.building are one object: details.oldPosition is read after
\* moveBuilding has assigned the new position to it.
MoveDone(E, oldPath, newPath, layer, allocation, result) ==
  IF result.success
  THEN emitUpdateEvent(
         [E EXCEPT !.gridManager = allocation.gm, !.fileTracker = result.ft],
         UpdateEvent("building_moved", result.building, newPath, layer,
                     [oldPath     |-> oldPath,
                      newPath     |-> newPath,
                      oldPosition |-> result.building.position,
                      newPosition |-> allocation.position]))
  ELSE [E EXCEPT !.gridManager = allocation.gm]

\* handleFileMove, from the result of allocatePosition on.
MoveAllocated(E, oldPath, newPath, layer, allocation) ==
  IF ~allocation.success
  THEN [E EXCEPT !.gridManager = allocation.gm]
  ELSE MoveDone(E, oldPath, newPath, layer, allocation,
                moveBuilding(E.fileTracker, oldPath, newPath,
                             allocation.position, layer))

\* handleFileMove, from the building found at oldPath on.
MoveFound(E, oldPath, newPath, layer, building) ==
  MoveAllocated(E, oldPath, newPath, layer,
                allocatePosition(freePosition(E.gridManager, building.position).gm,
                                 newPath, building.id))

handleFileMove(E, oldPath, newPath, layer) ==
  IF ~hasBuilding(E.fileTracker, oldPath)
  THEN handleFileCreation(E, newPath, layer)
  ELSE MoveFound(E, oldPath, newPath, layer, getBuilding(E.fileTracker, oldPath))

(***************************************************************************)
(* CityGenerator.                                                          *)
(***************************************************************************)
\* fileChange.previousPath || fileChange.filePath
SourcePath(fileChange) ==
  IF fileChange.previousPath = NoPath THEN fileChange.filePath
  ELSE fileChange.previousPath

LayerOf(fileChange, commit) ==
  [timestamp  |-> commit.timestamp,
   author     |-> commit.author,
   changeType |-> fileChange.changeType]

Dispatch(E, fileChange, layer) ==
  CASE fileChange.changeType = CREATE ->
         handleFileCreation(E, fileChange.filePath, layer)
    [] fileChange.changeType = MODIFY ->
         handleFileModification(E, fileChange.filePath, layer)
    [] fileChange.changeType = DELETE ->
         handleFileDeletion(E, fileChange.filePath, layer)
    [] fileChange.changeType \in {RENAME, MOVE} ->
         handleFileMove(E, SourcePath(fileChange), fileChange.filePath, layer)
    [] OTHER -> E

processFileChange(E, fileChange, commit) ==
  Dispatch(E, fileChange, LayerOf(fileChange, commit))

\* reset(): fileTracker.clear() and a new GridManager(config.roadInterval)
reset(E) == [E EXCEPT !.fileTracker = NewFileTracker,
                      !.gridManager = NewGridManager(roadInterval)]

\* generateBuildingGeometries(): the geometries of the active buildings that
\* have one, in the order of the ledger.
RECURSIVE GeometriesFrom(_, _, _, _)
GeometriesFrom(buildings, i, now, geometries) ==
  IF i > Len(buildings) THEN geometries
  ELSE GeometriesFrom(buildings, i + 1, now,
         IF buildingToGeometry(buildings[i], now) = {} THEN geometries
         ELSE Append(geometries,
                     CHOOSE g \in buildingToGeometry(buildings[i], now) : TRUE))

\* generateBuildingGeometries with the fault of going through all buildings
\* and giving each a geometry.
RECURSIVE AllGeometriesFrom(_, _, _, _)
AllGeometriesFrom(buildings, i, now, geometries) ==
  IF i > Len(buildings) THEN geometries
  ELSE AllGeometriesFrom(buildings, i + 1, now,
         geometries \o
           [k \in 1..Cardinality(buildingToGeometryOfAny(buildings[i], now)) |->
              CHOOSE g \in buildingToGeometryOfAny(buildings[i], now) : TRUE])

generateAllBuildingGeometries(E, now) ==
  AllGeometriesFrom(getAllBuildings(E.fileTracker), 1, now, <<>>)

generateBuildingGeometries(E, now) ==
  GeometriesFrom(getActiveBuildings(E.fileTracker), 1, now, <<>>)

\* exportCityData(): the configuration, the exported ledger and the bounds
\* (and the time of the export, which no import reads).
exportCityData(E) ==
  [config      |-> [roadInterval |-> E.gridManager.roadInterval],
   fileTracker |-> exportData(E.fileTracker),
   gridBounds  |-> E.gridManager.bounds]

\* rebuildGridFromBuildings(): allocatePosition for every active building,
\* in the order of the ledger, on the grid as it is.
RECURSIVE RebuildLoop(_, _, _)
RebuildLoop(gm, buildings, i) ==
  IF i > Len(buildings) THEN gm
  ELSE RebuildLoop(allocatePosition(gm, buildings[i].filePath,
                                    buildings[i].id).gm,
                   buildings, i + 1)

rebuildGridFromBuildings(E) ==
  [E EXCEPT !.gridManager = RebuildLoop(@, getActiveBuildings(E.fileTracker), 1)]

\* importCityData(data): the configuration is merged, the ledger imported,
\* the grid rebuilt.
importCityData(E, data) ==
  rebuildGridFromBuildings(
    [E EXCEPT !.fileTracker = importData(@, data.fileTracker)])

\* processCommit: the file changes of a commit, in their order.
RECURSIVE ProcessFileChanges(_, _, _, _)
ProcessFileChanges(E, filesChanged, i, commit) ==
  IF i > Len(filesChanged) THEN E
  ELSE ProcessFileChanges(processFileChange(E, filesChanged[i], commit),
                          filesChanged, i + 1, commit)

processCommit(E, commit) == ProcessFileChanges(E, commit.filesChanged, 1, commit)

(***************************************************************************)
(* processCommit with the listeners called.  run is the record             *)
(*   [E, received, thrown, applied]                                        *)
(* of the engine, what the listeners received, whether an exception left   *)
(* an emitUpdateEvent, and the number of file changes that went through    *)
(* processFileChange.  emitUpdateEvent is the last statement of a handler  *)
(* and no caller up to generateCity has a try: an exception that leaves it *)
(* leaves the loops over the file changes and the commits.                 *)
(***************************************************************************)
RECURSIVE EmitAll(_, _, _, _)
EmitAll(updateListeners, events, i, delivery) ==
  IF i > Len(events) \/ delivery.thrown THEN delivery
  ELSE EmitAll(updateListeners, events, i + 1,
               ForEachListener(updateListeners, 1, events[i], delivery.received))

Notified(run, E, delivery) ==
  [E        |-> [E EXCEPT !.emitted = run.E.emitted \o E.emitted],
   received |-> delivery.received,
   thrown   |-> delivery.thrown,
   applied  |-> run.applied + 1]

Processed(run, updateListeners, E) ==
  Notified(run, E,
           EmitAll(updateListeners, E.emitted, 1,
                   [received |-> run.received, thrown |-> FALSE]))

RECURSIVE NotifyingFileChanges(_, _, _, _, _)
NotifyingFileChanges(run, updateListeners, filesChanged, i, commit) ==
  IF i > Len(filesChanged) \/ run.thrown THEN run
  ELSE NotifyingFileChanges(
         Processed(run, updateListeners,
                   processFileChange([run.E EXCEPT !.emitted = <<>>],
                                     filesChanged[i], commit)),
         updateListeners, filesChanged, i + 1, commit)

\* commits.sort((a, b) => a.timestamp.getTime() - b.timestamp.getTime()).
\* Array.prototype.sort is stable: the result is the one of inserting the
\* commits one by one, each behind those that do not come after it.
InsertBeforeEqual(sorted, commit) ==
  LET k == Cardinality({i \in 1..Len(sorted) :
                          sorted[i].timestamp < commit.timestamp})
  IN  SubSeq(sorted, 1, k) \o <<commit>> \o SubSeq(sorted, k + 1, Len(sorted))

InsertBehindEqual(sorted, commit) ==
  LET k == Cardinality({i \in 1..Len(sorted) :
                          sorted[i].timestamp <= commit.timestamp})
  IN  SubSeq(sorted, 1, k) \o <<commit>> \o SubSeq(sorted, k + 1, Len(sorted))

RECURSIVE SortFrom(_, _, _)
SortFrom(commits, i, sorted) ==
  IF i > Len(commits) THEN sorted
  ELSE SortFrom(commits, i + 1, InsertBehindEqual(sorted, commits[i]))

sortByTimestamp(commits) == SortFrom(commits, 1, <<>>)

\* The loop of generateCity over sortedCommits.
RECURSIVE ProcessCommits(_, _, _)
ProcessCommits(E, sortedCommits, i) ==
  IF i > Len(sortedCommits) THEN E
  ELSE ProcessCommits(processCommit(E, sortedCommits[i]), sortedCommits, i + 1)

generateCity(E, commits) ==
  ProcessCommits(reset(E), sortByTimestamp(commits), 1)

(***************************************************************************)
(* The state machine.                                                      *)
(***************************************************************************)
VARIABLES
  gridManager,   \* CityGeneratorCore.gridManager
  fileTracker,   \* CityGeneratorCore.fileTracker
  idCounter,     \* how many building ids have been generated
  emitted,       \* the update events emitted by the last applied file change
  last,          \* the last applied file change and what it met (history)
  nEvents        \* how many applied file changes changed the state (history)

vars == <<gridManager, fileTracker, idCounter, emitted, last, nEvents>>

Authors == {"alice"}

\* "absent", "active" or "retired": what the ledger holds at a path.
Status(ft, filePath) ==
  IF ~MapHas(ft.buildings, filePath) THEN "absent"
  ELSE IF MapGet(ft.buildings, filePath).isActive THEN "active" ELSE "retired"

Engine == [gridManager |-> gridManager, fileTracker |-> fileTracker,
           idCounter |-> idCounter, emitted |-> <<>>]

\* The positions the ledger records at a path: none or one.
PositionsAt(ft, filePath) ==
  {ft.buildings[i].position :
     i \in {j \in 1..Len(ft.buildings) : ft.buildings[j].filePath = filePath}}

NoChange == [changeType |-> "none", filePath |-> NoPath, oldPath |-> NoPath,
             srcStatus |-> "absent", dstStatus |-> "absent",
             srcPositions |-> {}]

Init ==
  /\ gridManager = NewGridManager(roadInterval)
  /\ fileTracker = NewFileTracker
  /\ idCounter = 0
  /\ emitted = <<>>
  /\ last = NoChange
  /\ nEvents = 0

Install(E) ==
  /\ gridManager' = E.gridManager
  /\ fileTracker' = E.fileTracker
  /\ idCounter' = E.idCounter
  /\ emitted' = E.emitted

\* One file change of one commit goes through processFileChange.
Apply(fileChange, commit, limit) ==
  /\ nEvents < limit
  /\ Install(processFileChange(Engine, fileChange, commit))
  /\ last' = [changeType |-> fileChange.changeType,
              filePath   |-> fileChange.filePath,
              oldPath    |-> SourcePath(fileChange),
              srcStatus  |-> Status(fileTracker, SourcePath(fileChange)),
              dstStatus  |-> Status(fileTracker, fileChange.filePath),
              srcPositions |-> PositionsAt(fileTracker, SourcePath(fileChange))]
  /\ nEvents' = IF <<gridManager', fileTracker', idCounter'>>
                     = <<gridManager, fileTracker, idCounter>>
                 THEN nEvents ELSE nEvents + 1

\* The commits reach the engine in chronological order: the timestamp of a
\* commit is the number of the state change its file change may make.
Commits == [timestamp : {nEvents + 1}, author : Authors]

FileChange(t, p, q) == [changeType |-> t, filePath |-> p, previousPath |-> q]

ApplyCreate(limit) ==
  \E p \in FilePaths, c \in Commits :
    Apply(FileChange(CREATE, p, NoPath), c, limit)

ApplyModify(limit) ==
  \E p \in FilePaths, c \in Commits :
    Apply(FileChange(MODIFY, p, NoPath), c, limit)

ApplyDelete(limit) ==
  \E p \in FilePaths, c \in Commits :
    Apply(FileChange(DELETE, p, NoPath), c, limit)

\* previousPath = filePath is the same input as no previousPath.
ApplyMove(limit) ==
  \E p \in FilePaths, c \in Commits :
    \E q \in (FilePaths \ {p}) \cup {NoPath} :
      Apply(FileChange(MOVE, p, q), c, limit)

ApplyRename(limit) ==
  \E p \in FilePaths, c \in Commits :
    \E q \in (FilePaths \ {p}) \cup {NoPath} :
      Apply(FileChange(RENAME, p, q), c, limit)

\* Spec: file changes of all five kinds.
Next ==
  \/ ApplyCreate(MaxEvents)
  \/ ApplyModify(MaxEvents)
  \/ ApplyDelete(MaxEvents)
  \/ ApplyMove(MaxEvents)
  \/ ApplyRename(MaxEvents)

Spec == Init /\ [][Next]_vars

\* SpecDeep: longer runs of CREATE, DELETE and MOVE file changes (MODIFY
\* changes no cell and no position of an existing building, and RENAME takes
\* the arm of MOVE in processFileChange).
NextDeep ==
  \/ ApplyCreate(MaxDeepEvents)
  \/ ApplyDelete(MaxDeepEvents)
  \/ ApplyMove(MaxDeepEvents)

SpecDeep == Init /\ [][NextDeep]_vars

(***************************************************************************)
(* SpecGrid: the public methods of one GridManager called directly, in any *)
(* order, on positions inside and outside the grid, for several road       *)
(* intervals (the constructor's parameter).                                *)
(***************************************************************************)
GridIntervals == {2, 3, 4}
GridIds == {1, 2}
Reservers == {"op"}
GridPositions ==
  {Coord(x, z) : x \in -(HalfSize + 1)..(HalfSize + 1),
                 z \in -(HalfSize + 1)..(HalfSize + 1)}

InitGrid ==
  /\ gridManager \in {NewGridManager(i) : i \in GridIntervals}
  /\ fileTracker = NewFileTracker
  /\ idCounter = 0
  /\ emitted = <<>>
  /\ last = [call |-> "constructor", ok |-> TRUE]
  /\ nEvents = 0

GridCall(call, gm, ok) ==
  /\ nEvents < MaxGridCalls
  /\ gridManager' = gm
  /\ last' = [call |-> call, ok |-> ok]
  /\ nEvents' = IF gm = gridManager THEN nEvents ELSE nEvents + 1
  /\ UNCHANGED <<fileTracker, idCounter, emitted>>

Allocated(allocation) ==
  GridCall("allocatePosition", allocation.gm, allocation.success)

GridAllocate ==
  \E p \in FilePaths, id \in GridIds :
    Allocated(allocatePosition(gridManager, p, id))

Returned(call, result) == GridCall(call, result.gm, result.ok)

GridFree ==
  \E pos \in GridPositions :
    Returned("freePosition", freePosition(gridManager, pos))

GridReserve ==
  \E pos \in GridPositions, by \in Reservers :
    Returned("reservePosition", reservePosition(gridManager, pos, by))

GridRelease ==
  \E pos \in GridPositions :
    Returned("releaseReservation", releaseReservation(gridManager, pos))

NextGrid == GridAllocate \/ GridFree \/ GridReserve \/ GridRelease

SpecGrid == InitGrid /\ [][NextGrid]_vars

(***************************************************************************)
(* SpecRoads: an engine configured with a road interval of 2 (the first    *)
(* expansion of the initial grid adds roads only), so that an allocation   *)
(* fails once the initial grid is full; file changes that create, over     *)
(* more paths than the initial grid has buildable cells.                   *)
(***************************************************************************)
ConfigIntervals == {2}
ModifiedPaths == {PathE}

InitRoads ==
  /\ gridManager \in {NewGridManager(i) : i \in ConfigIntervals}
  /\ fileTracker = NewFileTracker
  /\ idCounter = 0
  /\ emitted = <<>>
  /\ last = NoChange
  /\ nEvents = 0

RoadsCreate ==
  \E p \in MorePaths, c \in Commits :
    Apply(FileChange(CREATE, p, NoPath), c, MaxRoadEvents)

RoadsModify ==
  \E p \in ModifiedPaths, c \in Commits :
    Apply(FileChange(MODIFY, p, NoPath), c, MaxRoadEvents)

RoadsMove ==
  \E p \in MorePaths, c \in Commits :
    Apply(FileChange(MOVE, p, NoPath), c, MaxRoadEvents)

NextRoads == RoadsCreate \/ RoadsModify \/ RoadsMove

SpecRoads == InitRoads /\ [][NextRoads]_vars

(***************************************************************************)
(* SpecBatch: generateCity called with batches of commits in any order.    *)
(* The sha of a commit is its place in the batch the caller passes.        *)
(***************************************************************************)
BatchChanges ==
  {FileChange(t, PathA, NoPath) : t \in {CREATE, MODIFY, DELETE}}

CommitShapes == [timestamp : 1..MaxTime, change : BatchChanges]

BatchOf(shapes) ==
  [i \in 1..Len(shapes) |->
     [sha          |-> i,
      timestamp    |-> shapes[i].timestamp,
      author       |-> "alice",
      filesChanged |-> <<shapes[i].change>>]]

Batches ==
  {BatchOf(shapes) : shapes \in UNION {[1..n -> CommitShapes] : n \in 0..MaxCommits}}

InitBatch ==
  /\ gridManager = NewGridManager(roadInterval)
  /\ fileTracker = NewFileTracker
  /\ idCounter = 0
  /\ emitted = <<>>
  /\ last = [batch |-> <<>>, sortedCommits |-> <<>>]
  /\ nEvents = 0

GenerateCity ==
  \E commits \in Batches :
    /\ nEvents < MaxBatches
    /\ Install(generateCity(Engine, commits))
    /\ last' = [batch |-> commits, sortedCommits |-> sortByTimestamp(commits)]
    /\ nEvents' = nEvents + 1

NextBatch == GenerateCity

SpecBatch == InitBatch /\ [][NextBatch]_vars

(***************************************************************************)
(* SpecFill: a GridManager of the code's size (initialSize 50, bounds      *)
(* -25..25) and road interval 4 is given MaxKeys distinct paths,           *)
(* "file0.txt", "file1.txt", ..., one allocatePosition call each, a step   *)
(* being KeysPerStep calls in a row.  nEvents is the number of calls made, *)
(* last.failures the number of calls that returned success: false,         *)
(* last.expansions the number of calls that changed the bounds.            *)
(***************************************************************************)
RECURSIVE Digits(_)
Digits(n) ==
  IF n < 10 THEN <<48 + n>> ELSE Append(Digits(n \div 10), 48 + (n % 10))

\* `file${i}.txt`
FileName(i) == <<102, 105, 108, 101>> \o Digits(i) \o <<46, 116, 120, 116>>

InitFill ==
  /\ gridManager = GridManagerOf(InitialBounds(codeInitialSize), roadInterval)
  /\ fileTracker = NewFileTracker
  /\ idCounter = 0
  /\ emitted = <<>>
  /\ last = [call |-> "constructor", ok |-> TRUE, failures |-> 0,
             expansions |-> 0]
  /\ nEvents = 0

\* The loop of the calls: loop is the record of the index, the number of the
\* next path and the two counts.
FillCalled(loop, allocation) ==
  [gm         |-> allocation.gm,
   next       |-> loop.next + 1,
   failures   |-> loop.failures + IF allocation.success THEN 0 ELSE 1,
   expansions |-> loop.expansions
                    + IF allocation.gm.bounds = loop.gm.bounds THEN 0 ELSE 1]

FillCall(loop) ==
  FillCalled(loop, allocatePosition(loop.gm, FileName(loop.next), loop.next + 1))

RECURSIVE FillLoop(_, _)
FillLoop(loop, until) ==
  IF loop.next >= until THEN loop ELSE FillLoop(FillCall(loop), until)

Filled(loop) ==
  /\ gridManager' = loop.gm
  /\ last' = [call |-> "allocatePosition",
              ok |-> loop.failures = last.failures,
              failures |-> loop.failures,
              expansions |-> loop.expansions]
  /\ nEvents' = loop.next
  /\ UNCHANGED <<fileTracker, idCounter, emitted>>

\* The next KeysPerStep calls of the loop, or those that are left.
Fill ==
  /\ nEvents < MaxKeys
  /\ Filled(FillLoop([gm |-> gridManager, next |-> nEvents,
                      failures |-> last.failures,
                      expansions |-> last.expansions],
                     Min(nEvents + KeysPerStep, MaxKeys)))

NextFill == Fill

SpecFill == InitFill /\ [][NextFill]_vars

(***************************************************************************)
(* SpecRealloc: the calls of SpecGrid, and the three calls                 *)
(*   allocatePosition(p, id); freePosition(its position);                  *)
(*   allocatePosition(p, id')                                              *)
(* in a row.  last.first and last.second are the positions the two         *)
(* allocations returned, last.expanded tells whether the first expanded    *)
(* the grid.                                                               *)
(***************************************************************************)
TwinIds == [first |-> 1, twin |-> 2]
TwinReservers == [first |-> "op", twin |-> "other"]

ReturnedBy(allocation) ==
  [ok |-> allocation.success,
   positions |-> IF allocation.success THEN {allocation.position} ELSE {}]

ReturnedOk(result) == [ok |-> result.ok, positions |-> {}]

Reallocated(first, second) ==
  /\ nEvents < MaxGridCalls
  /\ gridManager' = second.gm
  /\ last' = [call |-> "allocate-free-allocate",
              ok |-> second.success,
              first |-> ReturnedBy(first).positions,
              second |-> ReturnedBy(second).positions,
              expanded |-> first.gm.bounds # gridManager.bounds]
  /\ nEvents' = nEvents + 1
  /\ UNCHANGED <<fileTracker, idCounter, emitted>>

FreedThenAllocated(first, p, id) ==
  Reallocated(first,
              allocatePosition(freePosition(first.gm, first.position).gm, p, id))

GridReallocate ==
  \E p \in FilePaths :
    /\ allocatePosition(gridManager, p, TwinIds.first).success
    /\ FreedThenAllocated(allocatePosition(gridManager, p, TwinIds.first),
                          p, TwinIds.twin)

NextRealloc == NextGrid \/ GridReallocate

SpecRealloc == InitGrid /\ [][NextRealloc]_vars

(***************************************************************************)
(* SpecTwin: two GridManagers constructed with the same road interval     *)
(* receive the same calls with the same paths and positions; the building  *)
(* ids and the reservers' names they are given differ.      gridManager is *)
(* the first, last.twin the second; last.returned and last.twinReturned    *)
(* are what the last call returned to each: success or ok, and the         *)
(* position of an allocation.                                              *)
(***************************************************************************)
InitTwin ==
  /\ \E i \in GridIntervals :
       /\ gridManager = NewGridManager(i)
       /\ last = [call |-> "constructor", twin |-> NewGridManager(i),
                  returned |-> ReturnedOk([ok |-> TRUE]),
                  twinReturned |-> ReturnedOk([ok |-> TRUE])]
  /\ fileTracker = NewFileTracker
  /\ idCounter = 0
  /\ emitted = <<>>
  /\ nEvents = 0

TwinCall(call, gm, returned, twin, twinReturned) ==
  /\ nEvents < MaxTwinCalls
  /\ gridManager' = gm
  /\ last' = [call |-> call, twin |-> twin,
              returned |-> returned, twinReturned |-> twinReturned]
  /\ nEvents' = IF gm = gridManager /\ twin = last.twin
                THEN nEvents ELSE nEvents + 1
  /\ UNCHANGED <<fileTracker, idCounter, emitted>>

TwinAllocated(allocation, twinAllocation) ==
  TwinCall("allocatePosition", allocation.gm, ReturnedBy(allocation),
           twinAllocation.gm, ReturnedBy(twinAllocation))

TwinAllocate ==
  \E p \in FilePaths :
    TwinAllocated(allocatePosition(gridManager, p, TwinIds.first),
                  allocatePosition(last.twin, p, TwinIds.twin))

TwinReturned(call, result, twinResult) ==
  TwinCall(call, result.gm, ReturnedOk(result),
           twinResult.gm, ReturnedOk(twinResult))

TwinFree ==
  \E pos \in GridPositions :
    TwinReturned("freePosition", freePosition(gridManager, pos),
                 freePosition(last.twin, pos))

TwinReserve ==
  \E pos \in GridPositions :
    TwinReturned("reservePosition",
                 reservePosition(gridManager, pos, TwinReservers.first),
                 reservePosition(last.twin, pos, TwinReservers.twin))

TwinRelease ==
  \E pos \in GridPositions :
    TwinReturned("releaseReservation", releaseReservation(gridManager, pos),
                 releaseReservation(last.twin, pos))

NextTwin == TwinAllocate \/ TwinFree \/ TwinReserve \/ TwinRelease

SpecTwin == InitTwin /\ [][NextTwin]_vars

(***************************************************************************)
(* SpecRound: an engine takes file changes; at some point exportCityData   *)
(* is called on it and the data kept (last.snapshots, with the ledger and  *)
(* the grid of that moment in last.exporters); the engine goes on, taking  *)
(* more file changes or a reset, and then importCityData is called on it   *)
(* with the data kept: the importing engine is a fresh one after a reset   *)
(* and one with a history of its own otherwise.  last.replaced is the      *)
(* ledger the import found.  The commits are a day, an hour, a minute, a   *)
(* second and a millisecond apart.                                         *)
(***************************************************************************)
InitRound ==
  /\ gridManager = NewGridManager(roadInterval)
  /\ fileTracker = NewFileTracker
  /\ idCounter = 0
  /\ emitted = <<>>
  /\ last = [call |-> "constructor", snapshots |-> {}, exporters |-> {},
             replaced |-> {}]
  /\ nEvents = 0

RoundCommits ==
  [timestamp : {(nEvents + 1) * ((((24 + 1) * 60 + 1) * 60 + 1) * 1000 + 1)},
   author : Authors]

RoundApply(fileChange, commit) ==
  /\ nEvents < MaxRoundEvents
  /\ last.call # "importCityData"
  /\ Install(processFileChange(Engine, fileChange, commit))
  /\ last' = [last EXCEPT !.call = "processFileChange"]
  /\ nEvents' = IF <<gridManager', fileTracker', idCounter'>>
                     = <<gridManager, fileTracker, idCounter>>
                 THEN nEvents ELSE nEvents + 1

RoundCreate ==
  \E p \in FilePaths, c \in RoundCommits :
    RoundApply(FileChange(CREATE, p, NoPath), c)

RoundModify ==
  \E p \in FilePaths, c \in RoundCommits :
    RoundApply(FileChange(MODIFY, p, NoPath), c)

RoundDelete ==
  \E p \in FilePaths, c \in RoundCommits :
    RoundApply(FileChange(DELETE, p, NoPath), c)

RoundMove ==
  \E p \in FilePaths, q \in FilePaths, c \in RoundCommits :
    p # q /\ RoundApply(FileChange(MOVE, p, q), c)

RoundExport ==
  /\ last.snapshots = {}
  /\ last' = [call      |-> "exportCityData",
              snapshots |-> {exportCityData(Engine)},
              exporters |-> {[fileTracker |-> fileTracker,
                              gridManager |-> gridManager]},
              replaced  |-> {}]
  /\ UNCHANGED <<gridManager, fileTracker, idCounter, emitted, nEvents>>

RoundReset ==
  /\ last.snapshots # {}
  /\ last.call \notin {"reset", "importCityData"}
  /\ Install(reset(Engine))
  /\ last' = [last EXCEPT !.call = "reset"]
  /\ UNCHANGED nEvents

RoundImport ==
  /\ last.call # "importCityData"
  /\ \E data \in last.snapshots :
       Install(importCityData(Engine, data))
  /\ last' = [last EXCEPT !.call = "importCityData",
                          !.replaced = {fileTracker}]
  /\ UNCHANGED nEvents

NextRound ==
  \/ RoundCreate
  \/ RoundModify
  \/ RoundDelete
  \/ RoundMove
  \/ RoundExport
  \/ RoundReset
  \/ RoundImport

SpecRound == InitRound /\ [][NextRound]_vars

(***************************************************************************)
(* SpecListen: listeners are added to and removed from an engine, which    *)
(* takes commits of one or two file changes.  The first listener throws    *)
(* whenever it is called, the second never.  last.listeners is             *)
(* updateListeners, last.received what each listener was called with       *)
(* during the last commit, last.removed the listeners removed and not      *)
(* added since.                                                            *)
(***************************************************************************)
Listeners == {[id |-> "thrower", throws |-> TRUE],
              [id |-> "logger", throws |-> FALSE]}

NoneReceived == [id \in {l.id : l \in Listeners} |-> <<>>]

ListenChanges ==
  {FileChange(t, PathA, NoPath) : t \in {CREATE, MODIFY, DELETE}}
    \cup {FileChange(MOVE, PathB, PathA)}

ListenCommits ==
  [sha          : {nEvents + 1},
   timestamp    : {nEvents + 1},
   author       : Authors,
   filesChanged : UNION {[1..n -> ListenChanges] : n \in 1..MaxChanges}]

InitListen ==
  /\ gridManager = NewGridManager(roadInterval)
  /\ fileTracker = NewFileTracker
  /\ idCounter = 0
  /\ emitted = <<>>
  /\ last = [call |-> "constructor", listeners |-> <<>>,
             received |-> NoneReceived, thrown |-> FALSE, applied |-> 0,
             filesChanged |-> <<>>, removed |-> {}]
  /\ nEvents = 0

ListenAdd ==
  \E l \in Listeners :
    /\ Len(last.listeners) < MaxListeners
    /\ ~last.thrown
    /\ last' = [last EXCEPT !.call = "addUpdateListener",
                            !.listeners = addUpdateListener(@, l),
                            !.removed = @ \ {l.id}]
    /\ UNCHANGED <<gridManager, fileTracker, idCounter, emitted, nEvents>>

ListenRemove ==
  \E l \in Listeners :
    /\ ~last.thrown
    /\ last' = [last EXCEPT !.call = "removeUpdateListener",
                            !.listeners = removeUpdateListener(@, l),
                            !.removed = @ \cup {l.id}]
    /\ UNCHANGED <<gridManager, fileTracker, idCounter, emitted, nEvents>>

Listened(run, commit) ==
  /\ Install(run.E)
  /\ last' = [last EXCEPT !.call = "processCommit",
                          !.received = run.received,
                          !.thrown = run.thrown,
                          !.applied = run.applied,
                          !.filesChanged = commit.filesChanged]
  /\ nEvents' = nEvents + 1

ListenCommit ==
  \E commit \in ListenCommits :
    /\ nEvents < MaxListenCommits
    /\ ~last.thrown
    /\ Listened(NotifyingFileChanges(
                  [E |-> Engine, received |-> NoneReceived,
                   thrown |-> FALSE, applied |-> 0],
                  last.listeners, commit.filesChanged, 1, commit),
                commit)

NextListen ==
  \/ ListenAdd
  \/ ListenRemove
  \/ ListenCommit

SpecListen == InitListen /\ [][NextListen]_vars

(***************************************************************************)
(* SpecQuery: file changes, and between them a caller that asks a query    *)
(* twice in a row.  A commit of the n-th file change is 20 n days after    *)
(* day 0; Date.now() reads a day not before the last commit.  A call of a  *)
(* query is the record [fileTracker, result] of the tracker it leaves and  *)
(* what it returns; the second call meets the tracker the first left.      *)
(* What a query returns are the Building objects of the Map themselves:    *)
(* last.held are the ids of the buildings the caller holds, last.history   *)
(* the paths of the buildings whose layer objects it holds (in an array of *)
(* its own), last.lists whether it holds an array of buildings.            *)
(***************************************************************************)
\* "b.js"
PathJs == <<98, 46, 106, 115>>
QueryPaths == {PathA, PathJs}
QueryAuthors == {"alice", "bob"}
QueryCommits == [timestamp : {(nEvents + 1) * 20}, author : QueryAuthors]
Clock == {MaxQueryEvents * 20 + d : d \in {0, 25, 400}}
Limits == {1, 10}

\* The fault of a query method that empties the tracker.
AnswerAndClear(ft, result) == [fileTracker |-> clear(ft), result |-> result]
\* A query method: it returns its result and leaves the tracker as it is.
Answer(ft, result) == [fileTracker |-> ft, result |-> result]

InitQuery ==
  /\ gridManager = NewGridManager(roadInterval)
  /\ fileTracker = NewFileTracker
  /\ idCounter = 0
  /\ emitted = <<>>
  /\ last = [call |-> "constructor", args |-> <<>>, clocks |-> <<>>,
             first |-> <<>>, second |-> <<>>, held |-> {}, history |-> {},
             lists |-> FALSE, writes |-> 0]
  /\ nEvents = 0

QueryApply(fileChange, commit, limit) ==
  /\ nEvents < limit
  /\ Install(processFileChange(Engine, fileChange, commit))
  /\ last' = [last EXCEPT !.call = "processFileChange", !.args = <<>>,
                          !.clocks = <<>>, !.first = <<>>, !.second = <<>>,
                          !.held = {}, !.history = {}, !.lists = FALSE]
  /\ nEvents' = IF <<gridManager', fileTracker', idCounter'>>
                     = <<gridManager, fileTracker, idCounter>>
                 THEN nEvents ELSE nEvents + 1

QueryCreate ==
  \E p \in QueryPaths, c \in QueryCommits :
    QueryApply(FileChange(CREATE, p, NoPath), c, MaxQueryEvents)

QueryModify ==
  \E p \in QueryPaths, c \in QueryCommits :
    QueryApply(FileChange(MODIFY, p, NoPath), c, MaxQueryEvents)

QueryDelete ==
  \E p \in QueryPaths, c \in QueryCommits :
    QueryApply(FileChange(DELETE, p, NoPath), c, MaxQueryEvents)

QueryMove ==
  \E p \in QueryPaths, q \in QueryPaths, c \in QueryCommits :
    p # q /\ QueryApply(FileChange(MOVE, q, p), c, MaxQueryEvents)

\* The caller has asked twice: first and second are the two calls.
Asked(call, args, clocks, first, second, history, lists) ==
  /\ fileTracker' = second.fileTracker
  /\ last' = [last EXCEPT !.call = call, !.args = args, !.clocks = clocks,
                          !.first = first.result, !.second = second.result,
                          !.held = IF call \in {"getBuildingHistory",
                                                "generateBuildingGeometries"}
                                   THEN {}
                                   ELSE {first.result[i].id :
                                           i \in 1..Len(first.result)},
                          !.history = history, !.lists = lists]
  /\ UNCHANGED <<gridManager, idCounter, emitted, nEvents>>

\* undefined is the empty sequence, a building the sequence of it.
GetBuildingCall(ft, filePath) ==
  Answer(ft, IF hasBuilding(ft, filePath)
             THEN <<getBuilding(ft, filePath)>> ELSE <<>>)

GetBuildingByIdCall(ft, buildingId) ==
  Answer(ft, IF hasBuildingId(ft, buildingId)
             THEN <<getBuildingById(ft, buildingId)>> ELSE <<>>)

QueryGetBuilding ==
  \E filePath \in QueryPaths :
    LET first  == GetBuildingCall(fileTracker, filePath)
        second == GetBuildingCall(first.fileTracker, filePath)
    IN  Asked("getBuilding", <<filePath>>, <<>>, first, second, {}, FALSE)

QueryGetBuildingById ==
  \E buildingId \in 1..(idCounter + 1) :
    LET first  == GetBuildingByIdCall(fileTracker, buildingId)
        second == GetBuildingByIdCall(first.fileTracker, buildingId)
    IN  Asked("getBuildingById", <<buildingId>>, <<>>, first, second,
              {}, FALSE)

QueryGetActiveBuildings ==
  LET first  == Answer(fileTracker, getActiveBuildings(fileTracker))
      second == Answer(first.fileTracker,
                       getActiveBuildings(first.fileTracker))
  IN  Asked("getActiveBuildings", <<>>, <<>>, first, second, {}, TRUE)

QueryGetAllBuildings ==
  LET first  == Answer(fileTracker, getAllBuildings(fileTracker))
      second == Answer(first.fileTracker, getAllBuildings(first.fileTracker))
  IN  Asked("getAllBuildings", <<>>, <<>>, first, second, {}, TRUE)

QueryGetBuildingsByType ==
  \E fileType \in {"typescript", "javascript", "other"} :
    LET first  == Answer(fileTracker,
                         getBuildingsByType(fileTracker, fileType))
        second == Answer(first.fileTracker,
                         getBuildingsByType(first.fileTracker, fileType))
    IN  Asked("getBuildingsByType", <<fileType>>, <<>>, first, second,
              {}, TRUE)

QueryGetBuildingsByAuthor ==
  \E author \in QueryAuthors :
    LET first  == Answer(fileTracker,
                         getBuildingsByAuthor(fileTracker, author))
        second == Answer(first.fileTracker,
                         getBuildingsByAuthor(first.fileTracker, author))
    IN  Asked("getBuildingsByAuthor", <<author>>, <<>>, first, second,
              {}, TRUE)

QueryGetBuildingsModifiedInRange ==
  \E startDate \in {20, 40}, endDate \in {40, 60} :
    LET first  == Answer(fileTracker,
                         getBuildingsModifiedInRange(fileTracker,
                                                     startDate, endDate))
        second == Answer(first.fileTracker,
                         getBuildingsModifiedInRange(first.fileTracker,
                                                     startDate, endDate))
    IN  Asked("getBuildingsModifiedInRange", <<startDate, endDate>>, <<>>,
              first, second, {}, TRUE)

QueryGetMostActiveFiles ==
  \E limit \in Limits :
    LET first  == Answer(fileTracker, getMostActiveFiles(fileTracker, limit))
        second == Answer(first.fileTracker,
                         getMostActiveFiles(first.fileTracker, limit))
    IN  Asked("getMostActiveFiles", <<limit>>, <<>>, first, second, {}, TRUE)

QueryGetRecentlyModifiedFiles ==
  \E limit \in Limits :
    LET first  == Answer(fileTracker,
                         getRecentlyModifiedFiles(fileTracker, limit))
        second == Answer(first.fileTracker,
                         getRecentlyModifiedFiles(first.fileTracker, limit))
    IN  Asked("getRecentlyModifiedFiles", <<limit>>, <<>>, first, second,
              {}, TRUE)

QueryGetBuildingHistory ==
  \E filePath \in QueryPaths :
    LET first  == Answer(fileTracker,
                         getBuildingHistory(fileTracker, filePath))
        second == Answer(first.fileTracker,
                         getBuildingHistory(first.fileTracker, filePath))
    IN  Asked("getBuildingHistory", <<filePath>>, <<>>, first, second,
              IF hasBuilding(fileTracker, filePath) THEN {filePath} ELSE {},
              TRUE)

\* generateBuildingGeometries() twice, Date.now() reading now1 and then now2.
QueryGenerateBuildingGeometries ==
  \E now1 \in Clock, now2 \in Clock :
    /\ now1 <= now2
    /\ LET first  == Answer(fileTracker,
                            generateBuildingGeometries(Engine, now1))
           second == Answer(first.fileTracker,
                            generateBuildingGeometries(
                              [Engine EXCEPT !.fileTracker = first.fileTracker],
                              now2))
       IN  Asked("generateBuildingGeometries", <<>>, <<now1, now2>>,
                 first, second, {}, FALSE)

NextQuery ==
  \/ QueryCreate
  \/ QueryModify
  \/ QueryDelete
  \/ QueryMove
  \/ QueryGetBuilding
  \/ QueryGetBuildingById
  \/ QueryGetActiveBuildings
  \/ QueryGetAllBuildings
  \/ QueryGetBuildingsByType
  \/ QueryGetBuildingsByAuthor
  \/ QueryGetBuildingsModifiedInRange
  \/ QueryGetMostActiveFiles
  \/ QueryGetRecentlyModifiedFiles
  \/ QueryGetBuildingHistory
  \/ QueryGenerateBuildingGeometries

SpecQuery == InitQuery /\ [][NextQuery]_vars

(***************************************************************************)
(* SpecAlias: the ledger queries with a caller that writes to what a query *)
(* returned.  getBuilding and getBuildingById return the Building object   *)
(* of the Map; the list queries return a new array (Array.from, filter,    *)
(* slice) of the Building objects of the Map; getBuildingHistory returns a *)
(* new array ([...building.layers]) of the layer objects of the building.  *)
(* A write to an object is a write to the object the Map holds, a write to *)
(* a new array is not.                                                     *)
(***************************************************************************)
\* The Map, the object with this id having got the field value.
WriteBuilding(ft, id, field, value) ==
  [ft EXCEPT !.buildings =
     [i \in 1..Len(@) |->
        IF @[i].id = id THEN [@[i] EXCEPT ![field] = value] ELSE @[i]]]

\* The Map, the first layer object of the building at filePath having got
\* the author.
WriteLayer(ft, filePath, author) ==
  [ft EXCEPT !.buildings =
     [i \in 1..Len(@) |->
        IF @[i].filePath = filePath
        THEN [@[i] EXCEPT !.layers[1].author = author]
        ELSE @[i]]]

Written ==
  /\ last.writes < MaxWrites
  /\ last' = [last EXCEPT !.call = "write", !.writes = @ + 1]
  /\ UNCHANGED <<gridManager, idCounter, emitted, nEvents>>

\* building.isActive = false, on a building a query returned.
AliasRetire ==
  /\ \E id \in last.held :
       fileTracker' = WriteBuilding(fileTracker, id, "isActive", FALSE)
  /\ Written

\* building.layers.length = 1, on a building a query returned.
AliasTruncate ==
  /\ \E id \in last.held :
       fileTracker' =
         WriteBuilding(fileTracker, id, "layers",
                       SubSeq(getBuildingById(fileTracker, id).layers, 1, 1))
  /\ Written

\* history[0].author = "mallory", on the layers getBuildingHistory returned.
AliasSign ==
  /\ \E filePath \in last.history :
       fileTracker' = WriteLayer(fileTracker, filePath, "mallory")
  /\ Written

\* list.length = 0, on the array a list query returned.
AliasEmpty ==
  /\ last.lists
  /\ fileTracker' = fileTracker
  /\ Written

\* A file change of SpecAlias.
AliasChange ==
  \E t \in {CREATE, MODIFY, DELETE}, p \in QueryPaths, c \in QueryCommits :
    QueryApply(FileChange(t, p, NoPath), c, MaxAliasEvents)

NextAlias ==
  \/ AliasChange
  \/ QueryGetBuilding
  \/ QueryGetBuildingById
  \/ QueryGetActiveBuildings
  \/ QueryGetAllBuildings
  \/ QueryGetBuildingsByType
  \/ QueryGetBuildingsByAuthor
  \/ QueryGetBuildingsModifiedInRange
  \/ QueryGetMostActiveFiles
  \/ QueryGetRecentlyModifiedFiles
  \/ QueryGetBuildingHistory
  \/ AliasRetire
  \/ AliasTruncate
  \/ AliasSign
  \/ AliasEmpty

SpecAlias == InitQuery /\ [][NextAlias]_vars

(***************************************************************************)
(* SpecOverlap: two calls of generateCity on one engine that overlap.  An  *)
(* async function runs without interruption up to an await whose promise   *)
(* is pending, and another call can only run while it waits there.  The    *)
(* handlers have no await before their last statement (the await of        *)
(* handleFileModification and handleFileMove is on handleFileCreation,     *)
(* which has run by then, and a return follows), so a call waits only at   *)
(* the awaits of processFileChange, processCommit and generateCity: after  *)
(* a whole file change.  The call itself runs reset(), the sort and the    *)
(* first file change before it waits for the first time.  In which order   *)
(* the waiting calls go on is left open.                                   *)
(* last.calls[t] is the call t: its pc ("idle" before the call, "awaiting" *)
(* at an await, "returned") and the file changes still to be processed.    *)
(***************************************************************************)
OverlapCalls == {1, 2}
OverlapChanges ==
  {FileChange(CREATE, PathA, NoPath), FileChange(MODIFY, PathA, NoPath),
   FileChange(DELETE, PathA, NoPath), FileChange(CREATE, PathB, NoPath),
   FileChange(MOVE, PathB, PathA)}
OverlapCommits ==
  [timestamp : 1..MaxOverlapCommits, author : Authors,
   filesChanged : {<<change>> : change \in OverlapChanges}]
OverlapBatches ==
  UNION {[1..n -> OverlapCommits] : n \in 0..MaxOverlapCommits}

\* The file changes of the sorted commits from commit i on, each with its
\* commit, in the order the loops of generateCity and processCommit take them.
RECURSIVE PendingFrom(_, _)
PendingFrom(sortedCommits, i) ==
  IF i > Len(sortedCommits) THEN <<>>
  ELSE [j \in 1..Len(sortedCommits[i].filesChanged) |->
          [fileChange |-> sortedCommits[i].filesChanged[j],
           commit     |-> sortedCommits[i]]]
       \o PendingFrom(sortedCommits, i + 1)

\* processFileChange with the fault of an await between the allocation in
\* the grid and the update of the tracker: the call waits with the grid
\* updated only.
RunToAllocation(E, pending) ==
  [E |-> [E EXCEPT !.gridManager =
            allocatePosition(E.gridManager, pending.fileChange.filePath,
                             generateBuildingId(E.idCounter)).gm],
   inFlight |-> TRUE]

\* A call goes on up to its next await: processFileChange of the next
\* pending file change, whole.
RunToAwait(E, pending) ==
  [E |-> processFileChange(E, pending.fileChange, pending.commit),
   inFlight |-> FALSE]

\* The call goes on with the file changes pending, from engine E.
GoOn(E, pending) ==
  IF pending = <<>>
  THEN [E |-> E, inFlight |-> FALSE]
  ELSE RunToAwait(E, Head(pending))

InitOverlap ==
  /\ gridManager = NewGridManager(roadInterval)
  /\ fileTracker = NewFileTracker
  /\ idCounter = 0
  /\ emitted = <<>>
  /\ last = [call |-> "constructor", by |-> 0, inFlight |-> FALSE,
             calls |-> [t \in OverlapCalls |-> [pc |-> "idle", pending |-> <<>>]]]
  /\ nEvents = 0

Went(call, t, pending, run) ==
  /\ Install(run.E)
  /\ last' = [call |-> call, by |-> t, inFlight |-> run.inFlight,
              calls |-> [last.calls EXCEPT ![t] =
                           IF Len(pending) <= 1
                           THEN [pc |-> "returned", pending |-> <<>>]
                           ELSE [pc |-> "awaiting", pending |-> Tail(pending)]]]
  /\ nEvents' = nEvents + 1

\* generateCity(commits): reset(), the sort, and the loops up to the first
\* await behind a file change.
OverlapGenerateCity ==
  \E t \in OverlapCalls, commits \in OverlapBatches :
    /\ last.calls[t].pc = "idle"
    /\ Went("generateCity", t, PendingFrom(sortByTimestamp(commits), 1),
            GoOn(reset(Engine), PendingFrom(sortByTimestamp(commits), 1)))

\* A waiting call goes on with its next file change.
OverlapGoOn ==
  \E t \in OverlapCalls :
    /\ last.calls[t].pc = "awaiting"
    /\ Went("await", t, last.calls[t].pending,
            GoOn(Engine, last.calls[t].pending))

NextOverlap == OverlapGenerateCity \/ OverlapGoOn

SpecOverlap == InitOverlap /\ [][NextOverlap]_vars

(***************************************************************************)
(* SpecDelete: file changes, a DELETE of a path that has a building taken  *)
(* statement by statement: between the call of deleteBuilding and the call *)
(* of freePosition the engine is in a state of its own, in which nothing   *)
(* else runs.  last.pc is "retired" there and "idle" between file changes; *)
(* last.before is the engine the DELETE met.                               *)
(***************************************************************************)
InitDelete ==
  /\ gridManager = NewGridManager(roadInterval)
  /\ fileTracker = NewFileTracker
  /\ idCounter = 0
  /\ emitted = <<>>
  /\ last = [pc |-> "idle", changeType |-> "none", filePath |-> NoPath,
             layer |-> Undefined, before |-> Undefined]
  /\ nEvents = 0

DeleteStep(E, pc, fileChange, commit) ==
  /\ nEvents < MaxDeleteSteps
  /\ Install(E)
  /\ last' = [pc |-> pc, changeType |-> fileChange.changeType,
              filePath |-> fileChange.filePath,
              layer |-> LayerOf(fileChange, commit), before |-> Engine]
  /\ nEvents' = IF <<gridManager', fileTracker', idCounter'>>
                     = <<gridManager, fileTracker, idCounter>>
                 THEN nEvents ELSE nEvents + 1

\* A CREATE, MODIFY or MOVE, or a DELETE of a path without a building.
DeleteOther ==
  \E fileChange \in
       {FileChange(CREATE, PathA, NoPath), FileChange(CREATE, PathB, NoPath),
        FileChange(MODIFY, PathA, NoPath), FileChange(MOVE, PathB, PathA),
        FileChange(MOVE, PathA, PathB), FileChange(DELETE, PathC, NoPath)},
     commit \in Commits :
    /\ last.pc = "idle"
    /\ DeleteStep(processFileChange(Engine, fileChange, commit), "idle",
                  fileChange, commit)

\* handleFileDeletion up to the return of deleteBuilding.
DeleteRetire ==
  \E filePath \in {PathA, PathB}, commit \in Commits :
    /\ last.pc = "idle"
    /\ hasBuilding(fileTracker, filePath)
    /\ DeleteStep(DeletionRetired(Engine, filePath,
                                  LayerOf(FileChange(DELETE, filePath, NoPath),
                                          commit)),
                  "retired", FileChange(DELETE, filePath, NoPath), commit)

\* handleFileDeletion from there to its end.
DeleteFree ==
  /\ last.pc = "retired"
  /\ Install(DeletionFreed(Engine, last.filePath, last.layer))
  /\ last' = [last EXCEPT !.pc = "idle"]
  /\ UNCHANGED nEvents

NextDelete == DeleteOther \/ DeleteRetire \/ DeleteFree

SpecDelete == InitDelete /\ [][NextDelete]_vars

(***************************************************************************)
(* SpecDispatch: listeners that add and remove listeners while an event is *)
(* dispatched.  The bodies of the listener functions are drawn at the      *)
(* start.  last.updateListeners is the array, last.registered the array as *)
(* it was when the last event was emitted and last.called the listeners    *)
(* that event was handed to, in the order of the calls.                    *)
(***************************************************************************)
InitDispatch ==
  /\ gridManager = NewGridManager(roadInterval)
  /\ fileTracker = NewFileTracker
  /\ idCounter = 0
  /\ emitted = <<>>
  /\ \E bodies \in [ReactorIds -> Bodies] :
       last = [call |-> "constructor", bodies |-> bodies,
               updateListeners |-> <<>>, registered |-> <<>>,
               called |-> <<>>]
  /\ nEvents = 0

DispatchAdd ==
  \E listener \in ReactorIds :
    /\ Len(last.updateListeners) < MaxDispatchListeners
    /\ last' = [last EXCEPT !.call = "addUpdateListener",
                            !.updateListeners = addUpdateListener(@, listener)]
    /\ UNCHANGED <<gridManager, fileTracker, idCounter, emitted, nEvents>>

DispatchRemove ==
  \E listener \in ReactorIds :
    /\ last' = [last EXCEPT !.call = "removeUpdateListener",
                            !.updateListeners = removeUpdateListener(@, listener)]
    /\ UNCHANGED <<gridManager, fileTracker, idCounter, emitted, nEvents>>

DispatchDone(E, dispatch) ==
  /\ Len(E.emitted) = 1
  /\ Install(E)
  /\ last' = [last EXCEPT !.call = "emitUpdateEvent",
                          !.registered = last.updateListeners,
                          !.updateListeners = dispatch.updateListeners,
                          !.called = dispatch.called]
  /\ nEvents' = nEvents + 1

\* A CREATE of a new path: handleFileCreation emits one event.
DispatchEmit ==
  \E filePath \in {PathA, PathB}, commit \in Commits :
    /\ nEvents < MaxDispatchEvents
    /\ ~hasBuilding(fileTracker, filePath)
    /\ DispatchDone(processFileChange(Engine,
                                      FileChange(CREATE, filePath, NoPath),
                                      commit),
                    Dispatched(last.updateListeners, last.bodies))

NextDispatch == DispatchAdd \/ DispatchRemove \/ DispatchEmit

SpecDispatch == InitDispatch /\ [][NextDispatch]_vars

(***************************************************************************)
(* SpecReplay: the calls of SpecOverlap, each remembering the commits it   *)
(* was given: last.calls[t].commits.  A call that starts while the other   *)
(* waits at an await overlaps it; a call that starts when the other has    *)
(* returned follows an earlier batch on the same engine.                   *)
(***************************************************************************)
InitReplay ==
  /\ gridManager = NewGridManager(roadInterval)
  /\ fileTracker = NewFileTracker
  /\ idCounter = 0
  /\ emitted = <<>>
  /\ last = [call |-> "constructor", by |-> 0, overlapped |-> FALSE,
             calls |-> [t \in OverlapCalls |->
                          [pc |-> "idle", pending |-> <<>>, commits |-> <<>>]]]
  /\ nEvents = 0

Replayed(call, t, commits, pending, run) ==
  /\ Install(run.E)
  /\ last' = [call |-> call, by |-> t,
              overlapped |-> \/ last.overlapped
                             \/ \E u \in OverlapCalls \ {t} :
                                  last.calls[u].pc = "awaiting",
              calls |-> [last.calls EXCEPT ![t] =
                           IF Len(pending) <= 1
                           THEN [pc |-> "returned", pending |-> <<>>,
                                 commits |-> commits]
                           ELSE [pc |-> "awaiting", pending |-> Tail(pending),
                                 commits |-> commits]]]
  /\ nEvents' = nEvents + 1

\* generateCity(commits) up to its first await behind a file change.
ReplayGenerateCity ==
  \E t \in OverlapCalls, commits \in OverlapBatches :
    /\ last.calls[t].pc = "idle"
    /\ Replayed("generateCity", t, commits,
                PendingFrom(sortByTimestamp(commits), 1),
                GoOn(reset(Engine), PendingFrom(sortByTimestamp(commits), 1)))

\* A waiting call goes on with its next file change.
ReplayGoOn ==
  \E t \in OverlapCalls :
    /\ last.calls[t].pc = "awaiting"
    /\ Replayed("await", t, last.calls[t].commits, last.calls[t].pending,
                GoOn(Engine, last.calls[t].pending))

NextReplay == ReplayGenerateCity \/ ReplayGoOn

SpecReplay == InitReplay /\ [][NextReplay]_vars

(***************************************************************************)
(* SpecExpand: file changes over more paths than the initial grid has      *)
(* buildable cells, with the road interval of the default configuration:   *)
(* the fifth building expands the grid.                                    *)
(***************************************************************************)
ExpandCreate ==
  \E p \in MorePaths, c \in Commits :
    Apply(FileChange(CREATE, p, NoPath), c, MaxExpandEvents)

ExpandDelete ==
  \E c \in Commits :
    Apply(FileChange(DELETE, PathA, NoPath), c, MaxExpandEvents)

ExpandMove ==
  \E p \in {PathA, PathE}, c \in Commits :
    Apply(FileChange(MOVE, p, PathB), c, MaxExpandEvents)

NextExpand == ExpandCreate \/ ExpandDelete \/ ExpandMove

SpecExpand == Init /\ [][NextExpand]_vars

(***************************************************************************)
(* SpecScan: a GridManager of its own whose callers allocate, free and     *)
(* reserve.  last is the call, what it returned, the path it was called    *)
(* with and the position (for allocatePosition, the position it returned). *)
(***************************************************************************)
InitScan ==
  /\ gridManager \in {NewGridManager(i) : i \in GridIntervals}
  /\ fileTracker = NewFileTracker
  /\ idCounter = 0
  /\ emitted = <<>>
  /\ last = [call |-> "constructor", ok |-> TRUE, filePath |-> NoPath,
             position |-> Undefined]
  /\ nEvents = 0

ScanCall(call, gm, ok, filePath, position) ==
  /\ nEvents < MaxScanCalls
  /\ gridManager' = gm
  /\ last' = [call |-> call, ok |-> ok, filePath |-> filePath,
              position |-> position]
  /\ nEvents' = IF gm = gridManager THEN nEvents ELSE nEvents + 1
  /\ UNCHANGED <<fileTracker, idCounter, emitted>>

ScanAllocated(filePath, allocation) ==
  ScanCall("allocatePosition", allocation.gm, allocation.success, filePath,
           allocation.position)

ScanAllocate ==
  \E p \in FilePaths :
    ScanAllocated(p, allocatePosition(gridManager, p, nEvents + 1))

ScanReturned(call, result, position) ==
  ScanCall(call, result.gm, result.ok, NoPath, position)

ScanFree ==
  \E pos \in GridPositions :
    ScanReturned("freePosition", freePosition(gridManager, pos), pos)

ScanReserve ==
  \E pos \in GridPositions :
    ScanReturned("reservePosition",
                 reservePosition(gridManager, pos, "op"), pos)

NextScan == ScanAllocate \/ ScanFree \/ ScanReserve

SpecScan == InitScan /\ [][NextScan]_vars

(***************************************************************************)
(* SpecReserve: a GridManager of its own whose callers reserve, release,   *)
(* allocate and free.  last is the call, what it returned, the position    *)
(* it was called with (for allocatePosition, the position it returned)     *)
(* and the reserver.                                                       *)
(***************************************************************************)
ReserveOwners == {"op", "other"}

InitReserve ==
  /\ gridManager \in {NewGridManager(i) : i \in GridIntervals}
  /\ fileTracker = NewFileTracker
  /\ idCounter = 0
  /\ emitted = <<>>
  /\ last = [call |-> "constructor", ok |-> TRUE, position |-> Undefined,
             reservedBy |-> Undefined]
  /\ nEvents = 0

ReserveCall(call, gm, ok, position, reservedBy) ==
  /\ nEvents < MaxReserveCalls
  /\ gridManager' = gm
  /\ last' = [call |-> call, ok |-> ok, position |-> position,
              reservedBy |-> reservedBy]
  /\ nEvents' = IF gm = gridManager THEN nEvents ELSE nEvents + 1
  /\ UNCHANGED <<fileTracker, idCounter, emitted>>

ReserveAllocated(allocation) ==
  ReserveCall("allocatePosition", allocation.gm, allocation.success,
              allocation.position, Undefined)

ReserveAllocate ==
  \E p \in FilePaths :
    ReserveAllocated(allocatePosition(gridManager, p, nEvents + 1))

ReserveReturned(call, result, position, reservedBy) ==
  ReserveCall(call, result.gm, result.ok, position, reservedBy)

ReserveFree ==
  \E pos \in GridPositions :
    ReserveReturned("freePosition", freePosition(gridManager, pos), pos,
                    Undefined)

ReserveReserve ==
  \E pos \in GridPositions, by \in ReserveOwners :
    ReserveReturned("reservePosition", reservePosition(gridManager, pos, by),
                    pos, by)

ReserveRelease ==
  \E pos \in GridPositions :
    ReserveReturned("releaseReservation",
                    releaseReservation(gridManager, pos), pos, Undefined)

NextReserve ==
  ReserveAllocate \/ ReserveFree \/ ReserveReserve \/ ReserveRelease

SpecReserve == InitReserve /\ [][NextReserve]_vars

(***************************************************************************)
(* SpecLedger: a FileTracker of its own, called method by method.  The     *)
(* n-th call that changes the tracker carries a layer with timestamp n     *)
(* and, for createBuilding, the building id n.  last is the call, its      *)
(* arguments and the success it returned.                                  *)
(***************************************************************************)
LedgerPaths == {PathA, PathB}
LedgerPositions == {Coord(1, 1), Coord(1, 2)}
LedgerLayer(changeType) ==
  [timestamp |-> nEvents + 1, author |-> "alice", changeType |-> changeType]

InitLedger ==
  /\ gridManager = NewGridManager(roadInterval)
  /\ fileTracker = NewFileTracker
  /\ idCounter = 0
  /\ emitted = <<>>
  /\ last = [call |-> "constructor", filePath |-> NoPath, newPath |-> NoPath,
             success |-> TRUE]
  /\ nEvents = 0

Called(call, filePath, newPath, result) ==
  /\ nEvents < MaxLedgerCalls
  /\ fileTracker' = result.ft
  /\ last' = [call |-> call, filePath |-> filePath, newPath |-> newPath,
              success |-> result.success]
  /\ nEvents' = IF result.ft = fileTracker THEN nEvents ELSE nEvents + 1
  /\ UNCHANGED <<gridManager, idCounter, emitted>>

LedgerCreate ==
  \E filePath \in LedgerPaths, position \in LedgerPositions :
    Called("createBuilding", filePath, NoPath,
           createBuilding(fileTracker, filePath, position,
                          LedgerLayer(CREATE), nEvents + 1))

LedgerAddLayer ==
  \E filePath \in LedgerPaths :
    Called("addLayer", filePath, NoPath,
           addLayer(fileTracker, filePath, LedgerLayer(MODIFY)))

LedgerDelete ==
  \E filePath \in LedgerPaths :
    Called("deleteBuilding", filePath, NoPath,
           deleteBuilding(fileTracker, filePath, LedgerLayer(DELETE)))

LedgerMove ==
  \E oldFilePath \in LedgerPaths, newFilePath \in LedgerPaths,
     newPosition \in LedgerPositions :
    Called("moveBuilding", oldFilePath, newFilePath,
           moveBuilding(fileTracker, oldFilePath, newFilePath, newPosition,
                        LedgerLayer(MOVE)))

NextLedger == LedgerCreate \/ LedgerAddLayer \/ LedgerDelete \/ LedgerMove

SpecLedger == InitLedger /\ [][NextLedger]_vars

(***************************************************************************)
(* SpecMaps: the FileTracker alone, driven by its four mutators, clear(),  *)
(* exportData() and importData(data) on data an earlier exportData() has   *)
(* returned.  last.data is the set of those data, last.imported whether    *)
(* they have been imported.                                                *)
(***************************************************************************)
InitMaps ==
  /\ gridManager = NewGridManager(roadInterval)
  /\ fileTracker = NewFileTracker
  /\ idCounter = 0
  /\ emitted = <<>>
  /\ last = [call |-> "constructor", filePath |-> NoPath, data |-> {},
             imported |-> FALSE]
  /\ nEvents = 0

MapsCalled(call, filePath, ft) ==
  /\ nEvents < MaxMapsCalls
  /\ fileTracker' = ft
  /\ last' = [last EXCEPT !.call = call, !.filePath = filePath,
                          !.imported = @ \/ call = "importData"]
  /\ nEvents' = IF ft = fileTracker THEN nEvents ELSE nEvents + 1
  /\ UNCHANGED <<gridManager, idCounter, emitted>>

MapsCreate ==
  \E filePath \in LedgerPaths :
    MapsCalled("createBuilding", filePath,
               createBuilding(fileTracker, filePath, Coord(1, 1),
                              LedgerLayer(CREATE), nEvents + 1).ft)

MapsAddLayer ==
  \E filePath \in LedgerPaths :
    MapsCalled("addLayer", filePath,
               addLayer(fileTracker, filePath, LedgerLayer(MODIFY)).ft)

MapsDelete ==
  \E filePath \in LedgerPaths :
    MapsCalled("deleteBuilding", filePath,
               deleteBuilding(fileTracker, filePath, LedgerLayer(DELETE)).ft)

MapsMove ==
  \E oldFilePath \in LedgerPaths, newFilePath \in LedgerPaths :
    MapsCalled("moveBuilding", newFilePath,
               moveBuilding(fileTracker, oldFilePath, newFilePath, Coord(1, 2),
                            LedgerLayer(MOVE)).ft)

MapsClear == MapsCalled("clear", NoPath, clear(fileTracker))

MapsExport ==
  /\ last.data = {}
  /\ fileTracker # NewFileTracker
  /\ last' = [call |-> "exportData", filePath |-> NoPath,
              data |-> {exportData(fileTracker)}, imported |-> FALSE]
  /\ UNCHANGED <<gridManager, fileTracker, idCounter, emitted, nEvents>>

MapsImport ==
  \E data \in last.data :
    MapsCalled("importData", NoPath, importData(fileTracker, data))

NextMaps ==
  \/ MapsCreate
  \/ MapsAddLayer
  \/ MapsDelete
  \/ MapsMove
  \/ MapsClear
  \/ MapsExport
  \/ MapsImport

SpecMaps == InitMaps /\ [][NextMaps]_vars

(***************************************************************************)
(* What the properties speak of.                                           *)
(***************************************************************************)
Buildings == fileTracker.buildings

ActiveIndexes == {i \in 1..Len(Buildings) : Buildings[i].isActive}

KeyOf(position) == getGridKey(position.x, position.z)

CellsIn(gm, state) == {k \in DOMAIN gm.grid : gm.grid[k].state = state}

ActiveAt(k) == {i \in ActiveIndexes : KeyOf(Buildings[i].position) = k}

IsMove(change) == change.changeType \in {RENAME, MOVE}

(***************************************************************************)
(* Properties.                                                             *)
(***************************************************************************)

\* C1: after any sequence of file changes, no two active buildings have the
\* same recorded position.
C1_NoSharedPosition ==
  \A i, j \in ActiveIndexes :
    i # j => Buildings[i].position # Buildings[j].position

\* C2: the buildingId of every OCCUPIED cell is the id of exactly one active
\* building, and that building's position is the cell.
C2_OccupantIsTheActiveBuilding ==
  \A k \in CellsIn(gridManager, OCCUPIED) :
    /\ Cardinality(ActiveAt(k)) = 1
    /\ \A i \in ActiveAt(k) : Buildings[i].id = gridManager.grid[k].buildingId
    /\ \A i \in ActiveIndexes :
         Buildings[i].id = gridManager.grid[k].buildingId => i \in ActiveAt(k)

\* C3: after every file change the position of each active building is an
\* OCCUPIED cell, every OCCUPIED cell is the position of an active building,
\* and there are as many OCCUPIED cells as active buildings.
C3_ActiveIffOccupied ==
  /\ \A i \in ActiveIndexes :
       KeyOf(Buildings[i].position) \in CellsIn(gridManager, OCCUPIED)
  /\ \A k \in CellsIn(gridManager, OCCUPIED) : ActiveAt(k) # {}
  /\ Cardinality(CellsIn(gridManager, OCCUPIED)) = Cardinality(ActiveIndexes)

\* C4: every cell whose x or z is divisible by the road interval is ROAD, in
\* the state that follows its creation and in every state after it, whatever
\* allocatePosition, freePosition, reservePosition, releaseReservation and
\* the expansion of the grid do; so no OCCUPIED or RESERVED cell has a road
\* coordinate.
C4_RoadsStayRoads ==
  \A k \in DOMAIN gridManager.grid :
    isRoad(k[1], k[2], gridManager.roadInterval)
      => gridManager.grid[k].state = ROAD

\* C4 happens: the grid has been expanded, so cells with a road coordinate
\* were created by the expansion, while cells are OCCUPIED and RESERVED.
C4_Witness ==
  /\ gridManager.bounds.width > initialSize
  /\ \E k \in DOMAIN gridManager.grid :
       /\ ~(k \in BoundsKeys(InitialBounds(initialSize)))
       /\ isRoad(k[1], k[2], gridManager.roadInterval)
  /\ CellsIn(gridManager, OCCUPIED) # {}
  /\ CellsIn(gridManager, RESERVED) # {}

\* C5: a path has at most one active building, and a retired building does
\* not block CREATE: after a CREATE at a path whose building was retired,
\* the path has an active building.
C5_RetiredDoesNotBlockCreate ==
  /\ \A i, j \in ActiveIndexes :
       i # j => Buildings[i].filePath # Buildings[j].filePath
  /\ (last.changeType = CREATE /\ last.dstStatus = "retired")
       => Status(fileTracker, last.filePath) = "active"

\* C6: a DELETE at a path whose building is already retired is skipped: the
\* ledger (layers, active flag, timestamps) and the grid are as they were,
\* and no update event is emitted.
C6_DeleteOfRetiredIsSkipped ==
  [][(last'.changeType = DELETE /\ last'.srcStatus = "retired")
       => /\ fileTracker' = fileTracker
          /\ gridManager' = gridManager
          /\ emitted' = <<>>]_vars

\* C7: a DELETE at a path that never had a building is skipped: the ledger,
\* its id index and the grid are as they were, and no update event is
\* emitted.
C7_DeleteOfAbsentIsSkipped ==
  [][(last'.changeType = DELETE /\ last'.srcStatus = "absent")
       => /\ fileTracker' = fileTracker
          /\ gridManager' = gridManager
          /\ emitted' = <<>>]_vars

\* C7 happens: a DELETE at a path without a building has been processed
\* while other paths have buildings, an active and a retired one.
C7_Witness ==
  /\ last.changeType = DELETE
  /\ last.srcStatus = "absent"
  /\ emitted = <<>>
  /\ \E p \in FilePaths : Status(fileTracker, p) = "active"
  /\ \E p \in FilePaths : Status(fileTracker, p) = "retired"

\* C8: a MODIFY at a path without an active building (never seen, or
\* retired) takes the creation path: afterwards the path has an active
\* building with exactly one layer, on an OCCUPIED cell.
C8_ModifyWithoutActiveCreates ==
  (last.changeType = MODIFY /\ last.dstStatus # "active")
    => /\ Status(fileTracker, last.filePath) = "active"
       /\ Len(getBuilding(fileTracker, last.filePath).layers) = 1
       /\ KeyOf(getBuilding(fileTracker, last.filePath).position)
            \in CellsIn(gridManager, OCCUPIED)

\* C9: a RENAME or MOVE whose source path has no active building (never
\* seen, or retired) falls back to a creation at the destination: what the
\* ledger holds at the source path is untouched, and a destination without
\* a building gets a new active building with exactly one layer.
C9_MoveWithoutActiveSourceCreates ==
  [][(IsMove(last') /\ last'.srcStatus # "active"
        /\ last'.oldPath # last'.filePath /\ last'.dstStatus = "absent")
       => /\ Status(fileTracker', last'.oldPath) = last'.srcStatus
          /\ last'.srcStatus = "retired" =>
               getBuilding(fileTracker', last'.oldPath)
                 = getBuilding(fileTracker, last'.oldPath)
          /\ Status(fileTracker', last'.filePath) = "active"
          /\ Len(getBuilding(fileTracker', last'.filePath).layers) = 1]_vars

\* C10: a MOVE or RENAME of an active building to a path that already has an
\* active building leaves the source where it was: the ledger is unchanged
\* (same key, same position, no layer appended, destination not overwritten),
\* the source's cell is still OCCUPIED and no other cell has become OCCUPIED.
C10_MoveOntoActiveLeavesSource ==
  [][(IsMove(last') /\ last'.srcStatus = "active"
        /\ last'.oldPath # last'.filePath /\ last'.dstStatus = "active")
       => /\ fileTracker' = fileTracker
          /\ KeyOf(getBuilding(fileTracker, last'.oldPath).position)
               \in CellsIn(gridManager', OCCUPIED)
          /\ CellsIn(gridManager', OCCUPIED) = CellsIn(gridManager, OCCUPIED)]_vars

\* What C11 is about: a MOVE or RENAME of an active building that has only
\* its creation layer, to another path that has no building.
MoveOfCreated ==
  /\ IsMove(last')
  /\ last'.oldPath # last'.filePath
  /\ last'.srcStatus = "active"
  /\ last'.dstStatus = "absent"
  /\ Len(getBuilding(fileTracker, last'.oldPath).layers) = 1

\* What CREATE(k1) then MOVE(k1 to k2) keeps: no building at k1, and at k2 an
\* active building with the id, the creation layer and the creation
\* timestamp of the one that was at k1, and exactly 2 layers.
MovePreserves(old, new) ==
  /\ ~hasBuilding(fileTracker', last'.oldPath)
  /\ new.id = old.id
  /\ new.isActive
  /\ Len(new.layers) = 2
  /\ new.layers[1] = old.layers[1]
  /\ new.layers[2].changeType = MOVE
  /\ new.createdAt = old.createdAt
  /\ hasBuildingId(fileTracker', old.id)
  /\ getBuildingById(fileTracker', old.id) = new

Retired(old, new) ==
  /\ Len(new.layers) = Len(old.layers) + 1
  /\ SubSeq(new.layers, 1, Len(old.layers)) = old.layers
  /\ new.layers[Len(new.layers)].changeType = DELETE
  /\ ~new.isActive
  /\ new.id = old.id
  /\ new.filePath = old.filePath
  /\ new.position = old.position
  /\ new.createdAt = old.createdAt

\* C12: a DELETE of an active building appends exactly one layer of kind
\* DELETE, makes the building inactive and its cell EMPTY, and removes
\* nothing: the building is still found by path and by id, with all earlier
\* layers in their order, and the ledger has as many buildings as before.
C12_DeleteRetiresWithoutRemoving ==
  [][(last'.changeType = DELETE /\ last'.srcStatus = "active")
       => /\ hasBuilding(fileTracker', last'.filePath)
          /\ Retired(getBuilding(fileTracker, last'.filePath),
                     getBuilding(fileTracker', last'.filePath))
          /\ hasBuildingId(fileTracker',
                           getBuilding(fileTracker, last'.filePath).id)
          /\ getBuildingById(fileTracker',
                             getBuilding(fileTracker, last'.filePath).id)
               = getBuilding(fileTracker', last'.filePath)
          /\ Len(fileTracker'.buildings) = Len(fileTracker.buildings)
          /\ KeyOf(getBuilding(fileTracker, last'.filePath).position)
               \in CellsIn(gridManager', EMPTY)]_vars

\* C12 happens: an active building with a history of several layers has
\* been deleted; it is in the ledger, inactive, and its cell is EMPTY.
C12_Witness ==
  /\ last.changeType = DELETE
  /\ last.srcStatus = "active"
  /\ Status(fileTracker, last.filePath) = "retired"
  /\ Len(getBuilding(fileTracker, last.filePath).layers) >= 3
  /\ KeyOf(getBuilding(fileTracker, last.filePath).position)
       \in CellsIn(gridManager, EMPTY)

\* C13: a CREATE at a path that has an active building is skipped without
\* side effects: no cell is allocated (the grid is as it was), the ledger is
\* as it was (layers, position and id of the existing building), no id is
\* drawn and no update event is emitted.
C13_CreateOfActiveIsSkipped ==
  [][(last'.changeType = CREATE /\ last'.dstStatus = "active")
       => /\ fileTracker' = fileTracker
          /\ gridManager' = gridManager
          /\ idCounter' = idCounter
          /\ emitted' = <<>>]_vars

\* C13 happens: a CREATE at a path with an active building has been
\* processed, with EMPTY cells left that an allocation could have taken.
C13_Witness ==
  /\ last.changeType = CREATE
  /\ last.dstStatus = "active"
  /\ Status(fileTracker, last.filePath) = "active"
  /\ CellsIn(gridManager, EMPTY) # {}
  /\ emitted = <<>>

\* A file change that takes the creation path: a CREATE, a MODIFY or a MOVE
\* or RENAME whose paths have no building.
TakesCreationPath(change) ==
  /\ change.changeType \in {CREATE, MODIFY, RENAME, MOVE}
  /\ change.srcStatus = "absent"
  /\ change.dstStatus = "absent"

\* The allocation that handleFileCreation asks for fails in this state.
AllocationFails(filePath) ==
  ~allocatePosition(gridManager, filePath, generateBuildingId(idCounter)).success

\* C14: when the allocation fails for a CREATE, or for a MODIFY or MOVE that
\* fell back to the creation path, the file change is dropped: the ledger is
\* as it was (no building inserted, none changed) and no update event is
\* emitted.
C14_FailedAllocationDropsEvent ==
  [][(TakesCreationPath(last') /\ AllocationFails(last'.filePath))
       => /\ fileTracker' = fileTracker
          /\ emitted' = <<>>]_vars

\* C14 happens: a MODIFY or MOVE that fell back to the creation path has
\* been dropped, its path has no building, while the ledger holds the
\* buildings that fill the grid.
C14_Witness ==
  /\ last.changeType \in {MODIFY, MOVE}
  /\ last.srcStatus = "absent"
  /\ last.dstStatus = "absent"
  /\ ~hasBuilding(fileTracker, last.filePath)
  /\ Len(fileTracker.buildings) >= 1
  /\ gridManager.bounds.width > initialSize
  /\ emitted = <<>>

NonDecreasing(seq) ==
  \A i, j \in 1..Len(seq) : i < j => seq[i].timestamp <= seq[j].timestamp

\* C15: generateCity applies the commits of the batch, all of them and each
\* once, in non-decreasing order of timestamp whatever the order the caller
\* passed, commits of equal timestamp in the order they were passed; so the
\* update events come in non-decreasing order of timestamp and the layers of
\* every building of the resulting ledger are in non-decreasing order of
\* timestamp.
C15_BatchAppliedInTimestampOrder ==
  /\ Len(last.sortedCommits) = Len(last.batch)
  /\ \A i \in 1..Len(last.batch) :
       \E j \in 1..Len(last.sortedCommits) : last.sortedCommits[j] = last.batch[i]
  /\ NonDecreasing(last.sortedCommits)
  /\ \A i, j \in 1..Len(last.sortedCommits) :
       (i < j /\ last.sortedCommits[i].timestamp = last.sortedCommits[j].timestamp)
         => last.sortedCommits[i].sha < last.sortedCommits[j].sha
  /\ NonDecreasing(emitted)
  /\ \A b \in 1..Len(Buildings) : NonDecreasing(Buildings[b].layers)

\* C15 happens: a batch of three commits passed out of order, two of them
\* with the same timestamp, has been applied and has left a building with
\* several layers.
C15_Witness ==
  /\ Len(last.batch) = MaxCommits
  /\ ~NonDecreasing(last.batch)
  /\ \E i, j \in 1..Len(last.batch) :
       i < j /\ last.batch[i].timestamp = last.batch[j].timestamp
  /\ \E b \in 1..Len(Buildings) : Len(Buildings[b].layers) >= 2

\* The state of every cell of a grid.
StatesOf(gm) == [k \in DOMAIN gm.grid |-> gm.grid[k].state]

\* C16: placement is deterministic: two freshly constructed indices with
\* the same road interval that get the same sequence of allocatePosition,
\* freePosition, reservePosition and releaseReservation calls with the same
\* paths and positions return the same to every call (the same position to
\* every allocation) and have the same cell states and the same bounds.
C16_PlacementIsDeterministic ==
  /\ last.returned = last.twinReturned
  /\ StatesOf(gridManager) = StatesOf(last.twin)
  /\ gridManager.bounds = last.twin.bounds

\* C16 happens: after calls that filled and expanded both grids, an
\* allocation has returned a position to both, and the two grids hold
\* different building ids.
C16_Witness ==
  /\ last.call = "allocatePosition"
  /\ last.returned.positions # {}
  /\ gridManager.bounds.width > initialSize
  /\ gridManager # last.twin
  /\ CellsIn(gridManager, RESERVED) # {}

C19_ImportRestoresExportedLedger ==
  last.call = "importCityData" =>
    \A exporter \in last.exporters :
      /\ fileTracker.buildings = exporter.fileTracker.buildings
      /\ fileTracker.buildingIds = exporter.fileTracker.buildingIds
      /\ \A i \in 1..Len(Buildings) :
           /\ hasBuilding(fileTracker, Buildings[i].filePath)
           /\ getBuilding(fileTracker, Buildings[i].filePath) = Buildings[i]
           /\ hasBuildingId(fileTracker, Buildings[i].id)
           /\ getBuildingById(fileTracker, Buildings[i].id) = Buildings[i]

\* C19 happens: a ledger with a building of several layers was exported, and
\* the data has been imported into a ledger that was not empty and held
\* something else.
C19_Witness ==
  /\ last.call = "importCityData"
  /\ \E exporter \in last.exporters :
       /\ \E i \in 1..Len(exporter.fileTracker.buildings) :
            Len(exporter.fileTracker.buildings[i].layers) >= 2
       /\ \E replaced \in last.replaced :
            /\ replaced.buildings # <<>>
            /\ replaced # exporter.fileTracker

\* C20 (as stated): engine round trip: after importCityData of the data
\* exportCityData gave, the importing engine's grid has the cell states of
\* the exporting engine's grid at the export, a cell is OCCUPIED exactly at
\* the recorded position of each active building, and the bounds are those
\* of the exporting engine.
C20_ImportRestoresExportedGrid ==
  last.call = "importCityData" =>
    \A exporter \in last.exporters :
      /\ StatesOf(gridManager) = StatesOf(exporter.gridManager)
      /\ CellsIn(gridManager, OCCUPIED)
           = {KeyOf(Buildings[i].position) : i \in ActiveIndexes}
      /\ gridManager.bounds = exporter.gridManager.bounds

\* The buildings of a ledger with an id: none or one.
WithId(ft, id) ==
  {ft.buildings[i] : i \in {j \in 1..Len(ft.buildings) : ft.buildings[j].id = id}}

BuildingsOf(ft) == {ft.buildings[i] : i \in 1..Len(ft.buildings)}

\* What happened to a building between two ledgers, as an update event type.
KindOf(before, after) ==
  IF before.filePath # after.filePath THEN "building_moved"
  ELSE IF after.isActive THEN "building_updated"
  ELSE "building_deleted"

\* The event tells what happened to the one building that differs between
\* the two ledgers, with its id and its (new) path.
Describes(event, ft, ftAfter) ==
  /\ BuildingsOf(ftAfter) \ BuildingsOf(ft) = WithId(ftAfter, event.buildingId)
  /\ \E after \in WithId(ftAfter, event.buildingId) :
       /\ event.filePath = after.filePath
       /\ IF WithId(ft, after.id) = {}
          THEN event.type = "building_created"
          ELSE \A before \in WithId(ft, after.id) :
                 /\ event.type = KindOf(before, after)
                 /\ Len(after.layers) = Len(before.layers) + 1

\* C21: a file change that changes the ledger emits exactly one update
\* event, of the type that matches what happened to the building
\* (building_created, building_updated, building_deleted, building_moved)
\* and with the building's id and path; a file change that is skipped or
\* fails, leaving the ledger as it was, emits none.
C21_OneEventPerLedgerChange ==
  [][IF fileTracker' = fileTracker
     THEN emitted' = <<>>
     ELSE /\ Len(emitted') = 1
          /\ Describes(emitted'[1], fileTracker, fileTracker')]_vars

\* C21 happens: a move has been announced, in a ledger that also holds a
\* retired building.
C21_Witness ==
  /\ Len(emitted) = 1
  /\ emitted[1].type = "building_moved"
  /\ \E i \in 1..Len(Buildings) : ~Buildings[i].isActive

\* How often a listener is registered.
Registrations(updateListeners, listener) ==
  Cardinality({i \in 1..Len(updateListeners) : updateListeners[i] = listener})

\* Every event of a sequence n times in a row.
EachTimes(events, n) ==
  [k \in 1..(Len(events) * n) |-> events[((k - 1) \div n) + 1]]

\* The commit of a step of SpecListen.
CommitOf(filesChanged) ==
  [sha |-> nEvents + 1, timestamp |-> nEvents + 1, author |-> "alice",
   filesChanged |-> filesChanged]

\* C22: a listener that throws when it is called with an update event keeps
\* neither the listeners registered after it from being called with the
\* event nor the remaining file changes of the commit from being applied:
\* no exception leaves the commit, every file change goes through
\* processFileChange, the engine ends as it would without listeners, and
\* every listener is called with every emitted event, once for each of its
\* registrations.
C22_ThrowingListenerStopsNothing ==
  [][nEvents' = nEvents + 1 =>
       /\ ~last'.thrown
       /\ last'.applied = Len(last'.filesChanged)
       /\ <<gridManager', fileTracker', idCounter', emitted'>>
            = <<processCommit(Engine, CommitOf(last'.filesChanged)).gridManager,
                processCommit(Engine, CommitOf(last'.filesChanged)).fileTracker,
                processCommit(Engine, CommitOf(last'.filesChanged)).idCounter,
                processCommit(Engine, CommitOf(last'.filesChanged)).emitted>>
       /\ \A l \in Listeners :
            last'.received[l.id]
              = EachTimes(emitted', Registrations(last.listeners, l))]_vars

\* C22 happens: the listener that throws is registered before the one that
\* does not, and a commit has emitted two events.
C22_Witness ==
  /\ last.call = "processCommit"
  /\ Len(last.listeners) = 2
  /\ last.listeners[1].throws
  /\ ~last.listeners[2].throws
  /\ Len(emitted) = 2
  /\ last.received["thrower"] = emitted
  /\ last.received["logger"] = emitted

\* C23: once removeUpdateListener(l) has returned, l is not called with the
\* event of any file change applied afterwards (until it is added again),
\* whatever addUpdateListener calls came before the removal.
C23_RemovedListenerIsNotCalled ==
  [][nEvents' = nEvents + 1 =>
       \A id \in last.removed : last'.received[id] = <<>>]_vars

\* The place among the active buildings of the active building at index i of
\* the ledger.
RankOf(i) == Cardinality({j \in ActiveIndexes : j <= i})

\* The box is the one of the building: it stands at the building's cell, has
\* the building's file type and a floor for each of its layers.
BoxOf(box, building) ==
  /\ box.position[1] = building.position.x * gridSpacing
  /\ box.position[3] = building.position.z * gridSpacing
  /\ box.fileType = building.fileType
  /\ Len(box.layers) = Len(building.layers)
  /\ \A k \in 1..Len(box.layers) :
       /\ box.layers[k].timestamp = building.layers[k].timestamp
       /\ box.layers[k].author = building.layers[k].author

\* C24: generateBuildingGeometries() returns exactly one box for each active
\* building, in the order of the ledger, and none for a retired building.
C24_OneBoxPerActiveBuilding ==
  last.call = "generateBuildingGeometries" =>
    /\ Len(last.first) = Cardinality(ActiveIndexes)
    /\ \A i \in ActiveIndexes : BoxOf(last.first[RankOf(i)], Buildings[i])

\* The geometries have been asked for with an active building behind a
\* retired one in the ledger.
C24_Witness ==
  /\ last.call = "generateBuildingGeometries"
  /\ Len(last.first) = 1
  /\ Len(Buildings) = 2
  /\ ~Buildings[1].isActive
  /\ Buildings[2].isActive

\* The read queries a caller asks twice in a row.
ReadQueries ==
  {"getBuilding", "getBuildingById", "getActiveBuildings", "getAllBuildings",
   "getBuildingsByType", "getBuildingsByAuthor", "getBuildingsModifiedInRange",
   "getMostActiveFiles", "getRecentlyModifiedFiles", "getBuildingHistory",
   "generateBuildingGeometries"}

\* Both calls returned the same and left the ledger and the grid alone.
SameAnswerTwice ==
  /\ last'.first = last'.second
  /\ fileTracker' = fileTracker
  /\ gridManager' = gridManager

C27_AnswersAreSnapshots ==
  [][last'.call = "write" => fileTracker' = fileTracker]_vars

\* The tracker has a building, or an active building, at the path.
EntityAt(filePath) == hasBuilding(fileTracker, filePath)
ActiveEntityAt(filePath) ==
  EntityAt(filePath) /\ getBuilding(fileTracker, filePath).isActive

\* C28: moveBuilding fails exactly when there is no building at the old path
\* or an active building at the new path (a retired building at the new path
\* does not make it fail), and a failed moveBuilding leaves the tracker as it
\* was.
C28_MoveFailsOnlyOnActiveDestination ==
  [][last'.call = "moveBuilding" =>
       /\ ~last'.success <=> \/ ~EntityAt(last'.filePath)
                             \/ ActiveEntityAt(last'.newPath)
       /\ ~last'.success => fileTracker' = fileTracker]_vars

\* The ids of the retired buildings of a tracker.
RetiredIds(ft) ==
  {ft.buildings[i].id : i \in {j \in 1..Len(ft.buildings) :
                                 ~ft.buildings[j].isActive}}

\* C29: addLayer fails for a path without a building and for a path whose
\* building is not active, and a failed addLayer leaves the tracker as it
\* was; no call makes a retired building active again.
C29_NoLayerForARetiredBuilding ==
  [][/\ (last'.call = "addLayer" /\ ~ActiveEntityAt(last'.filePath))
          => ~last'.success
     /\ (last'.call = "addLayer" /\ ~last'.success)
          => fileTracker' = fileTracker
     /\ RetiredIds(fileTracker) \subseteq RetiredIds(fileTracker')]_vars

\* addLayer has been called for a retired building and has failed.
C29_Witness ==
  /\ last.call = "addLayer"
  /\ ~last.success
  /\ EntityAt(last.filePath)
  /\ ~ActiveEntityAt(last.filePath)

\* The cells of the grid other than the one at key are as they were.
OtherCellsKept(key) ==
  /\ gridManager'.bounds = gridManager.bounds
  /\ DOMAIN gridManager'.grid = DOMAIN gridManager.grid
  /\ \A k \in DOMAIN gridManager.grid \ {key} :
       gridManager'.grid[k] = gridManager.grid[k]

\* reservePosition returns true exactly for an EMPTY cell, which becomes
\* RESERVED by the given reserver; otherwise nothing changes.
ReservationTaken ==
  IF CellIs(gridManager.grid, KeyOf(last'.position), EMPTY)
  THEN /\ last'.ok
       /\ CellIs(gridManager'.grid, KeyOf(last'.position), RESERVED)
       /\ gridManager'.grid[KeyOf(last'.position)].reservedBy = last'.reservedBy
       /\ OtherCellsKept(KeyOf(last'.position))
  ELSE ~last'.ok /\ gridManager' = gridManager

\* releaseReservation returns true exactly for a RESERVED cell, which
\* becomes EMPTY; otherwise nothing changes.
ReservationGiven ==
  IF CellIs(gridManager.grid, KeyOf(last'.position), RESERVED)
  THEN /\ last'.ok
       /\ CellIs(gridManager'.grid, KeyOf(last'.position), EMPTY)
       /\ OtherCellsKept(KeyOf(last'.position))
  ELSE ~last'.ok /\ gridManager' = gridManager

\* allocatePosition leaves every RESERVED cell as it is and returns none.
ReservationsRespected ==
  /\ \A k \in CellsIn(gridManager, RESERVED) :
       gridManager'.grid[k] = gridManager.grid[k]
  /\ last'.ok => KeyOf(last'.position) \notin CellsIn(gridManager, RESERVED)

\* C30: reservePosition succeeds only on an EMPTY cell and makes it RESERVED
\* by the given reserver, and fails without change on any other cell or
\* outside the grid; releaseReservation succeeds only on a RESERVED cell and
\* makes it EMPTY; allocatePosition never returns a RESERVED cell.
C30_ReservationProtocol ==
  [][/\ last'.call = "reservePosition" => ReservationTaken
     /\ last'.call = "releaseReservation" => ReservationGiven
     /\ last'.call = "allocatePosition" => ReservationsRespected]_vars

\* allocatePosition has returned a cell although the cell the path hashes to
\* is in the grid and RESERVED.
C30_Witness ==
  /\ last.call = "allocatePosition"
  /\ last.ok
  /\ \E p \in FilePaths :
       /\ getHashedPosition(gridManager, p) # last.position
       /\ CellIs(gridManager.grid, KeyOf(getHashedPosition(gridManager, p)),
                 RESERVED)

\* The engine as it is after the step.
EngineAfter ==
  [gridManager |-> gridManager', fileTracker |-> fileTracker',
   idCounter |-> idCounter', emitted |-> emitted']

\* The file change the call went on with, and its commit.
WentOnWith == Head(last.calls[last'.by].pending)

Preferred == getHashedPosition(gridManager, last'.filePath)

\* The radius of the square around the preferred position on whose perimeter
\* the cell at key k lies.
RingOf(k) == Max(Abs(k[1] - Preferred.x), Abs(k[2] - Preferred.z))

\* The scan meets the cell at k before the cell at j.
MetBefore(k, j) ==
  \/ RingOf(k) < RingOf(j)
  \/ RingOf(k) = RingOf(j) /\ k[1] < j[1]
  \/ RingOf(k) = RingOf(j) /\ k[1] = j[1] /\ k[2] < j[2]

\* The allocation expanded the grid.
Expanded == gridManager'.bounds # gridManager.bounds

\* The cells that were EMPTY in the grid the successful scan went through:
\* the grid the call met or, when the call expanded it, that grid with the
\* cells created by the expansion.
EmptyWhenScanned ==
  {k \in DOMAIN gridManager'.grid :
     IF k \in DOMAIN gridManager.grid
     THEN gridManager.grid[k].state = EMPTY
     ELSE gridManager'.grid[k].state = EMPTY \/ k = KeyOf(last'.position)}

\* The returned cell is the first EMPTY cell the scan meets, and is OCCUPIED
\* after the call.
FirstEmptyTaken ==
  /\ KeyOf(last'.position) \in EmptyWhenScanned
  /\ \A k \in EmptyWhenScanned \ {KeyOf(last'.position)} :
       MetBefore(KeyOf(last'.position), k)
  /\ CellIs(gridManager'.grid, KeyOf(last'.position), OCCUPIED)

\* C31 as amended: a successful allocatePosition returns the first EMPTY
\* in-bounds cell in the order preferred cell, then the perimeters of the
\* squares of radius 1, 2, ... around it, each by increasing x and within one
\* x by increasing z; the cell is OCCUPIED after the call, and it was EMPTY
\* before the call unless the call expanded the grid and the cell is one the
\* expansion created.
C31_FirstEmptyCellOfTheScan ==
  [][(last'.call = "allocatePosition" /\ last'.ok) =>
       /\ FirstEmptyTaken
       /\ ~Expanded => CellIs(gridManager.grid, KeyOf(last'.position), EMPTY)]_vars

\* An allocation in the initial bounds has returned another cell than the
\* one its path hashes to.
C31_Witness ==
  /\ last.call = "allocatePosition"
  /\ last.ok
  /\ gridManager.bounds = InitialBounds(initialSize)
  /\ last.position # getHashedPosition(gridManager, last.filePath)

\* C31 as stated: the cell a successful allocatePosition returns is the
\* first EMPTY cell of the scan, was EMPTY immediately before the call and is
\* OCCUPIED after it.
C31_ReturnedCellWasEmpty ==
  [][(last'.call = "allocatePosition" /\ last'.ok) =>
       /\ FirstEmptyTaken
       /\ CellIs(gridManager.grid, KeyOf(last'.position), EMPTY)]_vars

\* The bounds grown once: by half the smaller dimension, rounded up, on
\* every side.
GrownOnce(b) ==
  LET e == (Min(b.width, b.height) + 1) \div 2
  IN  [minX |-> b.minX - e, maxX |-> b.maxX + e,
       minZ |-> b.minZ - e, maxZ |-> b.maxZ + e,
       width |-> b.width + 2 * e, height |-> b.height + 2 * e]

OuterCells ==
  {k \in DOMAIN gridManager.grid :
     ~InBounds(InitialBounds(initialSize), Coord(k[1], k[2]))}

GrownSymmetrically ==
  LET e == gridManager.bounds.minX - gridManager'.bounds.minX
  IN  /\ e > 0
      /\ gridManager'.bounds.maxX = gridManager.bounds.maxX + e
      /\ gridManager'.bounds.minZ = gridManager.bounds.minZ - e
      /\ gridManager'.bounds.maxZ = gridManager.bounds.maxZ + e
      /\ gridManager'.bounds.width = gridManager.bounds.width + 2 * e
      /\ gridManager'.bounds.height = gridManager.bounds.height + 2 * e

\* The cells the step created.
CreatedCells == (DOMAIN gridManager'.grid) \ (DOMAIN gridManager.grid)

\* The building of the tracker after the step that has this id.
SameBuildingAfter(id) ==
  {b \in BuildingsOf(fileTracker') : b.id = id}

\* C33: a file change that expands the grid grows the bounds by the same
\* amount on every side; every cell that existed keeps its state and its
\* building id; every building keeps its position; a created cell is ROAD
\* iff its x or its z is divisible by the road interval, and otherwise EMPTY,
\* but for the one cell the allocation that expanded the grid has taken.
C33_ExpansionKeepsWhatExists ==
  [][Expanded =>
       /\ GrownSymmetrically
       /\ DOMAIN gridManager'.grid = BoundsKeys(gridManager'.bounds)
       /\ \A k \in DOMAIN gridManager.grid :
            /\ gridManager'.grid[k].state = gridManager.grid[k].state
            /\ gridManager'.grid[k].buildingId = gridManager.grid[k].buildingId
       /\ \A b \in BuildingsOf(fileTracker) :
            \A a \in SameBuildingAfter(b.id) :
              a.filePath = b.filePath => a.position = b.position
       /\ \A k \in CreatedCells :
            gridManager'.grid[k].state = ROAD
              <=> (k[1] % gridManager.roadInterval = 0
                     \/ k[2] % gridManager.roadInterval = 0)
       /\ Cardinality({k \in CreatedCells :
                         gridManager'.grid[k].state \notin {ROAD, EMPTY}}) <= 1
       /\ \A k \in CreatedCells :
            gridManager'.grid[k].state \in {ROAD, EMPTY, OCCUPIED}]_vars

\* A CREATE has expanded the initial grid, in which buildings stand, and its
\* building stands on a created cell.
C33_Witness ==
  /\ last.changeType = CREATE
  /\ gridManager.bounds = GrownOnce(InitialBounds(initialSize))
  /\ \E i \in ActiveIndexes :
       /\ Buildings[i].filePath = last.filePath
       /\ KeyOf(Buildings[i].position) \in OuterCells
  /\ \E i \in ActiveIndexes :
       KeyOf(Buildings[i].position) \notin OuterCells

\* The cell at the position the building at the path had when the DELETE
\* met it.
CellOfDeleted ==
  KeyOf(getBuilding(last'.before.fileTracker, last'.filePath).position)

\* C34: in a DELETE of a path that has a building, the ledger is updated
\* first, the grid being left as it was (the appended layer and the
\* inactive flag are there while the cell is still as the DELETE met it),
\* and the cell is freed after that; the two steps together are
\* handleFileDeletion.
C34_RetiredBeforeFreed ==
  [][/\ last'.pc = "retired" =>
          /\ gridManager' = gridManager
          /\ ~getBuilding(fileTracker', last'.filePath).isActive
          /\ Len(getBuilding(fileTracker', last'.filePath).layers)
               = Len(getBuilding(fileTracker, last'.filePath).layers) + 1
     /\ (last.pc = "retired" /\ last'.pc = "idle") =>
          /\ fileTracker' = fileTracker
          /\ ~getBuilding(fileTracker, last'.filePath).isActive
          /\ ~CellIs(gridManager'.grid, CellOfDeleted, OCCUPIED)
          /\ [gridManager |-> gridManager', fileTracker |-> fileTracker',
              idCounter |-> idCounter', emitted |-> <<>>]
               = [handleFileDeletion(last'.before, last'.filePath, last'.layer)
                    EXCEPT !.emitted = <<>>]]_vars

\* The DELETE of an active building is between its two steps: the building
\* is retired and its cell still OCCUPIED.
C34_Witness ==
  /\ last.pc = "retired"
  /\ getBuilding(last.before.fileTracker, last.filePath).isActive
  /\ CellIs(gridManager.grid,
            KeyOf(getBuilding(fileTracker, last.filePath).position), OCCUPIED)

IsPrefix(s, t) == Len(s) <= Len(t) /\ SubSeq(t, 1, Len(s)) = s

\* The building of the tracker with the id, wherever it is keyed.
TheOneWithId(ft, id) ==
  ft.buildings[CHOOSE i \in 1..Len(ft.buildings) : ft.buildings[i].id = id]

IdsOf(ft) == {ft.buildings[i].id : i \in 1..Len(ft.buildings)}

\* C35: every building has at least one layer, and every call of
\* createBuilding, addLayer, deleteBuilding and moveBuilding keeps every
\* building and leaves the layers it had as a prefix of the layers it has
\* afterwards, by at most one layer longer.
C35_LayersOnlyGrowAtTheEnd ==
  [][/\ IdsOf(fileTracker) \subseteq IdsOf(fileTracker')
     /\ \A id \in IdsOf(fileTracker) :
          /\ IsPrefix(TheOneWithId(fileTracker, id).layers,
                      TheOneWithId(fileTracker', id).layers)
          /\ Len(TheOneWithId(fileTracker', id).layers)
               <= Len(TheOneWithId(fileTracker, id).layers) + 1
     /\ \A id \in IdsOf(fileTracker') :
          Len(TheOneWithId(fileTracker', id).layers) >= 1]_vars

\* A building created, modified and retired has been moved: its four layers
\* are those of the four calls, in their order.
C35_Witness ==
  /\ last.call = "moveBuilding" /\ last.success
  /\ Len(getBuilding(fileTracker, last.newPath).layers) = 4
  /\ getBuilding(fileTracker, last.newPath).layers[1].changeType = CREATE
  /\ getBuilding(fileTracker, last.newPath).layers[3].changeType = DELETE
  /\ getBuilding(fileTracker, last.newPath).layers[4].changeType = MOVE

\* C36: after every call of createBuilding, addLayer, deleteBuilding and
\* moveBuilding, every building's createdAt is the timestamp of its first
\* layer and its lastModified the timestamp of its last layer.
C36_DatesAreThoseOfFirstAndLastLayer ==
  \A i \in 1..Len(fileTracker.buildings) :
    LET building == fileTracker.buildings[i] IN
      /\ building.createdAt = building.layers[1].timestamp
      /\ building.lastModified = building.layers[Len(building.layers)].timestamp

\* addLayer has succeeded on a building that had two layers already: the
\* three timestamps differ.
C36_Witness ==
  /\ last.call = "addLayer" /\ last.success
  /\ Len(getBuilding(fileTracker, last.filePath).layers) = 3
  /\ getBuilding(fileTracker, last.filePath).createdAt
       < getBuilding(fileTracker, last.filePath).layers[2].timestamp
  /\ getBuilding(fileTracker, last.filePath).layers[2].timestamp
       < getBuilding(fileTracker, last.filePath).lastModified

\* C37: buildingIds and buildings are inverse of each other: every stored
\* building's id is mapped to the key the building is stored at, every id
\* of buildingIds is the id of the building stored at the key it is mapped
\* to, and getBuildingById(e.id) and getBuilding(e.filePath) are the stored
\* building e itself.
C37_MapsAreInverse ==
  /\ \A i \in 1..Len(fileTracker.buildings) :
       LET e == fileTracker.buildings[i] IN
         /\ hasBuildingId(fileTracker, e.id)
         /\ fileTracker.buildingIds[e.id] = e.filePath
         /\ getBuildingById(fileTracker, e.id) = e
         /\ getBuilding(fileTracker, e.filePath) = e
  /\ \A id \in DOMAIN fileTracker.buildingIds :
       /\ hasBuilding(fileTracker, fileTracker.buildingIds[id])
       /\ getBuilding(fileTracker, fileTracker.buildingIds[id]).id = id

\* Exported data have been imported and a building of the data has been
\* moved since: its id is mapped to the new key.
C37_Witness ==
  /\ last.call = "moveBuilding"
  /\ last.imported
  /\ hasBuilding(fileTracker, last.filePath)
  /\ fileTracker.buildingIds[getBuilding(fileTracker, last.filePath).id]
       = last.filePath
  /\ \E data \in last.data :
       /\ Len(data.buildings) = 1
       /\ data.buildings[1].id = getBuilding(fileTracker, last.filePath).id
       /\ data.buildings[1].filePath # last.filePath
       /\ Len(data.buildings[1].layers) + 1
            = Len(getBuilding(fileTracker, last.filePath).layers)

\* C38: an event is handed exactly once to every listener registered when
\* it is emitted, in the order of registration, whatever the listeners add
\* to or remove from the registrations while it is dispatched: the calls
\* made for the event are the registrations of that moment, one by one.
C38_EveryRegisteredListenerOnce ==
  last.call = "emitUpdateEvent" => last.called = last.registered

\* The city of an engine without the building ids, which are drawn at
\* random: the buildings in the order of the ledger, and the state of every
\* cell.
CityOf(E) ==
  [buildings |-> [i \in 1..Len(E.fileTracker.buildings) |->
                    [E.fileTracker.buildings[i] EXCEPT !.id = 0]],
   bounds    |-> E.gridManager.bounds,
   cells     |-> [key \in DOMAIN E.gridManager.grid |->
                    E.gridManager.grid[key].state]]

FreshEngine ==
  [gridManager |-> NewGridManager(roadInterval), fileTracker |-> NewFileTracker,
   idCounter |-> 0, emitted |-> <<>>]

\* C39: when a call of generateCity(commits) returns, the city is the one a
\* fresh engine makes of the same commits, whether the call followed an
\* earlier batch on the engine or overlapped another call.
C39_CityDependsOnlyOnCommits ==
  (last.by \in OverlapCalls /\ last.calls[last.by].pc = "returned") =>
     CityOf(Engine) = CityOf(generateCity(FreshEngine, last.calls[last.by].commits))

=============================================================================
